---------------------------- MODULE Spec2Model ----------------------------
(***************************************************************************)
(* Model of the MUSE App Preview MCP server (version 1.4.0, the server     *)
(* source carried in src/README.md from line 60 on).                       *)
(*                                                                         *)
(* State: the store file previews.json, the files of the screenshots       *)
(* directory, the payload file pending-previews.json, the module variable  *)
(* lastLaunchedSimulator, a logical clock standing for Date.now() and the  *)
(* outcome of the last tool call.  Every tool handler is one action; the   *)
(* outcomes of the external commands it runs are drawn with \E.  Where the *)
(* interleaving of two requests matters, capture_app_screens is taken in    *)
(* the steps its awaits cut it into, the invocations suspended at an await  *)
(* being kept in running.                                                   *)
(***************************************************************************)
EXTENDS Integers, Sequences, FiniteSets, TLC

VARIABLES
    storeFile,               \* previews.json : absent, unparseable or a JSON document
    shots,                   \* names of the files present in SCREENSHOTS_DIR
    pendingFile,             \* pending-previews.json : absent or the payload written
    lastLaunchedSimulator,   \* module variable, line 1125
    now,                     \* logical Date.now(): one tick per generated id or file name
    calls,                   \* number of tool calls handled so far
    ret,                     \* what the last tool call gave back to the dispatcher
    running                  \* the handler invocations suspended at an await

vars == <<storeFile, shots, pendingFile, lastLaunchedSimulator, now, calls, ret, running>>

-----------------------------------------------------------------------------
(* Bounds *)

MaxCalls == 4        \* tool calls in one run of the server
MaxFileCalls == 3    \* tool calls in one run of the capture and handoff tools
MaxLaunchCalls == 2  \* launch_and_capture calls in one run
MaxDispatchCalls == 2  \* requests given to the dispatcher in one run
MaxClock == 6        \* ticks of the logical clock (ids and file names generated)
MaxScreens == 3      \* longest screens list given to capture_app_screens
MaxNameLen == 3      \* words in a simulator name given to mapSimulatorToDeviceId
MaxBooted == 3       \* booted simulators in one listing given to the target selection
MaxRuntimes == 2     \* runtimes in one listing given to getBootedSimulators

-----------------------------------------------------------------------------
(* JavaScript values *)

\* The value of a property that is not there (undefined).
Undef == "<undefined>"

\* if (x) ... on a string-or-undefined value: undefined and "" are falsy.
Truthy(x) == x # Undef /\ x # ""

\* a || b
OrElse(a, b) == IF Truthy(a) THEN a ELSE b

\* obj.f for a parsed JSON object: a key that is absent reads as undefined.
Get(obj, f) == IF f \in DOMAIN obj THEN obj[f] ELSE Undef

\* obj.f = v on a parsed JSON object (adds the key when absent).
Put(obj, f, v) == [k \in DOMAIN obj \cup {f} |-> IF k = f THEN v ELSE obj[k]]

\* JSON.stringify of an object: keys whose value is undefined are left out.
StringifyObject(obj) ==
    [k \in {f \in DOMAIN obj : obj[f] # Undef} |-> obj[k]]

\* JSON.stringify(store, null, 2), as the document JSON.parse reads back.
Stringify(store) ==
    [previews |-> [i \in 1..Len(store.previews) |-> StringifyObject(store.previews[i])],
     settings |-> StringifyObject(store.settings)]

-----------------------------------------------------------------------------
(* Files *)

\* Files outside the tool's directories; nothing in the tool creates or deletes them.
UserFiles == {"/u/a.png", "/u/b.png"}
MissingFile == "/u/none.png"

\* path.join(SCREENSHOTS_DIR, `${prefix}_${timestamp}.png`)
ShotPath(prefix, ts) == "screenshots/" \o prefix \o "_" \o ToString(ts) \o ".png"

\* The existence check left out.
existsSyncAlways(p) == TRUE

\* fs.existsSync(p)
existsSync(p) == p \in UserFiles \/ p \in shots

Absent == [kind |-> "absent"]
Corrupt == [kind |-> "corrupt"]
JsonFile(doc) == [kind |-> "json", doc |-> doc]

-----------------------------------------------------------------------------
(* Store: loadStore, saveStore, generateId *)

DefaultSettings ==
    [defaultDeviceType |-> "iphone_6_7",
     defaultPaletteId  |-> "ocean",
     outputDirectory   |-> "~/Desktop/Previews",
     language          |-> "ko"]

\* A store file written by the earlier server versions (src/src/index.ts,
\* src/unnamed/part_000), whose settings have no language.
LegacyDoc ==
    [previews |-> <<>>,
     settings |-> [defaultDeviceType |-> "iphone_6_7",
                   defaultPaletteId  |-> "ocean",
                   outputDirectory   |-> "~/Desktop/Previews"]]

\* JSON.parse(data) throws on an unparseable file.
loadStoreThrows(file) == file.kind = "corrupt"

\* The language default applied to every file read.
loadStoreAlwaysKo(file) ==
    IF file.kind = "json"
    THEN [file.doc EXCEPT !.settings = Put(@, "language", "ko")]
    ELSE [previews |-> <<>>, settings |-> DefaultSettings]

loadStore(file) ==
    IF file.kind = "json"
    THEN IF ~Truthy(Get(file.doc.settings, "language"))
         THEN [file.doc EXCEPT !.settings = Put(@, "language", "ko")]
         ELSE file.doc
    ELSE [previews |-> <<>>, settings |-> DefaultSettings]

saveStore(store) == JsonFile(Stringify(store))

\* `preview_${Date.now()}_${random}`
generateId(t) == "preview_" \o ToString(t)

\* new Date().toISOString()
toISOString(t) == "T" \o ToString(t)

\* lastLaunchedSimulator = null
Null == [null |-> TRUE]

-----------------------------------------------------------------------------
(* Simulators: getBootedSimulators, mapSimulatorToDeviceId *)

\* A device name is the sequence of its words, "iPhone 15 Pro Max" being
\* <<"iPhone", "15", "Pro", "Max">>; toLowerCase() works word by word.
toLowerCase(name) ==
    [i \in 1..Len(name) |->
        CASE name[i] = "iPhone" -> "iphone"
          [] name[i] = "iPad"   -> "ipad"
          [] name[i] = "Pro"    -> "pro"
          [] name[i] = "Max"    -> "max"
          [] name[i] = "Plus"   -> "plus"
          [] name[i] = "Air"    -> "air"
          [] name[i] = "Mini"   -> "mini"
          [] name[i] = "SE"     -> "se"
          [] name[i] = "Apple"  -> "apple"
          [] name[i] = "Watch"  -> "watch"
          [] name[i] = "TV"     -> "tv"
          [] OTHER -> name[i]]

\* name.includes(words): the words occur in the name, next to each other.
includes(name, words) ==
    \E i \in 1..(Len(name) - Len(words) + 1) :
        SubSeq(name, i, i + Len(words) - 1) = words

\* Lines 820-826.
priority(deviceName) ==
    LET name == toLowerCase(deviceName)
    IN  IF includes(name, <<"iphone">>) /\ includes(name, <<"pro", "max">>) THEN 4
        ELSE IF includes(name, <<"iphone">>) /\ includes(name, <<"pro">>) THEN 3
        ELSE IF includes(name, <<"iphone">>) THEN 2
        ELSE IF includes(name, <<"ipad">>) THEN 1
        ELSE 0

\* The letters of the family name in a runtime key.
FamilyLetters(family) ==
    CASE family = "iOS"      -> <<"i", "O", "S">>
      [] family = "watchOS"  -> <<"w", "a", "t", "c", "h", "O", "S">>
      [] family = "tvOS"     -> <<"t", "v", "O", "S">>
      [] family = "xrOS"     -> <<"x", "r", "O", "S">>
      [] family = "visionOS" -> <<"v", "i", "s", "i", "o", "n", "O", "S">>

\* toLowerCase() letter by letter.
lowerCaseLetters(letters) ==
    [i \in 1..Len(letters) |->
        CASE letters[i] = "O" -> "o"
          [] letters[i] = "S" -> "s"
          [] OTHER -> letters[i]]

\* A filter that keeps every runtime whose key ends in OS.
runtimeIncludesIosLoose(runtime) ==
    includes(lowerCaseLetters(FamilyLetters(runtime.family)), <<"o", "s">>)

\* runtime.toLowerCase().includes("ios") on the runtime key of the simctl
\* output, a key being [family, version] for ...SimRuntime.<family>-<version>.
runtimeIncludesIos(runtime) ==
    includes(lowerCaseLetters(FamilyLetters(runtime.family)), <<"i", "o", "s">>)

\* `iOS ${major.minor}` from the match of /iOS[- ](\d+[.-]\d+)/i on the key; the
\* key is returned as it is when it does not match.
runtimeVersion(runtime) ==
    IF runtime.family = "iOS"
    THEN [os |-> "iOS", major |-> runtime.version[1], minor |-> runtime.version[2]]
    ELSE runtime

RECURSIVE Flatten(_)
\* The booted devices of the iOS runtimes, in the order of the simctl output.
Flatten(entries) ==
    IF entries = <<>> THEN <<>>
    ELSE LET e == Head(entries)
             booted == SelectSeq(e.devices, LAMBDA d : d.state = "Booted")
         IN  (IF runtimeIncludesIos(e.runtime)
              THEN [i \in 1..Len(booted) |->
                        [name |-> booted[i].name, udid |-> booted[i].udid,
                         runtime |-> runtimeVersion(e.runtime)]]
              ELSE <<>>)
             \o Flatten(Tail(entries))

\* The sort left out: the devices stay in the order of the simctl output.
sortByPriorityNone(devices) == devices

\* bootedDevices.sort((a, b) => b.priority - a.priority): stable, highest first.
sortByPriority(devices) ==
    SelectSeq(devices, LAMBDA d : priority(d.name) = 4)
    \o SelectSeq(devices, LAMBDA d : priority(d.name) = 3)
    \o SelectSeq(devices, LAMBDA d : priority(d.name) = 2)
    \o SelectSeq(devices, LAMBDA d : priority(d.name) = 1)
    \o SelectSeq(devices, LAMBDA d : priority(d.name) = 0)

\* getBootedSimulators on the parsed output of "xcrun simctl list devices booted -j".
getBootedSimulators(entries) == sortByPriority(Flatten(entries))

\* The rule list with the rule of each generation put before the rules of
\* its Pro Max, Pro and Plus models.
mapSimulatorToDeviceIdGenerationFirst(simulatorName) ==
    LET name == toLowerCase(simulatorName)
        has(words) == includes(name, words)
    IN  IF has(<<"iphone", "15">>) \/ has(<<"iphone", "16">>) THEN "iphone_6_1"
        ELSE IF has(<<"iphone", "14">>) THEN "iphone_6_1"
        ELSE IF has(<<"iphone", "se">>) THEN "iphone_5_5"
        ELSE IF has(<<"ipad", "pro", "12.9">>) \/ has(<<"ipad", "pro", "(12.9">>) THEN "ipad_12_9"
        ELSE IF has(<<"ipad", "pro", "11">>) \/ has(<<"ipad", "pro", "(11">>) THEN "ipad_11"
        ELSE IF has(<<"ipad", "air">>) THEN "ipad_10_9"
        ELSE IF has(<<"ipad", "mini">>) THEN "ipad_8_3"
        ELSE IF has(<<"ipad">>) THEN "ipad_10_9"
        ELSE "iphone_6_7"

\* The rule list without its last line: nothing is returned for an unmatched name.
mapSimulatorToDeviceIdNoDefault(simulatorName) ==
    LET name == toLowerCase(simulatorName)
        has(words) == includes(name, words)
    IN  IF has(<<"iphone", "15", "pro", "max">>) \/ has(<<"iphone", "16", "pro", "max">>) THEN "iphone_6_7"
        ELSE IF has(<<"iphone", "15", "pro">>) \/ has(<<"iphone", "16", "pro">>) THEN "iphone_6_1_pro"
        ELSE IF has(<<"iphone", "15", "plus">>) \/ has(<<"iphone", "16", "plus">>) THEN "iphone_6_7"
        ELSE IF has(<<"iphone", "15">>) \/ has(<<"iphone", "16">>) THEN "iphone_6_1"
        ELSE IF has(<<"iphone", "14", "pro", "max">>) THEN "iphone_6_7"
        ELSE IF has(<<"iphone", "14", "pro">>) THEN "iphone_6_1_pro"
        ELSE IF has(<<"iphone", "14", "plus">>) THEN "iphone_6_7"
        ELSE IF has(<<"iphone", "14">>) THEN "iphone_6_1"
        ELSE IF has(<<"iphone", "se">>) THEN "iphone_5_5"
        ELSE IF has(<<"ipad", "pro", "12.9">>) \/ has(<<"ipad", "pro", "(12.9">>) THEN "ipad_12_9"
        ELSE IF has(<<"ipad", "pro", "11">>) \/ has(<<"ipad", "pro", "(11">>) THEN "ipad_11"
        ELSE IF has(<<"ipad", "air">>) THEN "ipad_10_9"
        ELSE IF has(<<"ipad", "mini">>) THEN "ipad_8_3"
        ELSE IF has(<<"ipad">>) THEN "ipad_10_9"
        ELSE ""

\* mapSimulatorToDeviceId
mapSimulatorToDeviceId(simulatorName) ==
    LET name == toLowerCase(simulatorName)
        has(words) == includes(name, words)
    IN  IF has(<<"iphone", "15", "pro", "max">>) \/ has(<<"iphone", "16", "pro", "max">>) THEN "iphone_6_7"
        ELSE IF has(<<"iphone", "15", "pro">>) \/ has(<<"iphone", "16", "pro">>) THEN "iphone_6_1_pro"
        ELSE IF has(<<"iphone", "15", "plus">>) \/ has(<<"iphone", "16", "plus">>) THEN "iphone_6_7"
        ELSE IF has(<<"iphone", "15">>) \/ has(<<"iphone", "16">>) THEN "iphone_6_1"
        ELSE IF has(<<"iphone", "14", "pro", "max">>) THEN "iphone_6_7"
        ELSE IF has(<<"iphone", "14", "pro">>) THEN "iphone_6_1_pro"
        ELSE IF has(<<"iphone", "14", "plus">>) THEN "iphone_6_7"
        ELSE IF has(<<"iphone", "14">>) THEN "iphone_6_1"
        ELSE IF has(<<"iphone", "se">>) THEN "iphone_5_5"
        ELSE IF has(<<"ipad", "pro", "12.9">>) \/ has(<<"ipad", "pro", "(12.9">>) THEN "ipad_12_9"
        ELSE IF has(<<"ipad", "pro", "11">>) \/ has(<<"ipad", "pro", "(11">>) THEN "ipad_11"
        ELSE IF has(<<"ipad", "air">>) THEN "ipad_10_9"
        ELSE IF has(<<"ipad", "mini">>) THEN "ipad_8_3"
        ELSE IF has(<<"ipad">>) THEN "ipad_10_9"
        ELSE "iphone_6_7"

\* find(s => s.udid === udid): the first such simulator, Undef when there is none.
findByUdid(simulators, udid) ==
    IF \E i \in 1..Len(simulators) : simulators[i].udid = udid
    THEN LET k == CHOOSE i \in 1..Len(simulators) :
                    /\ simulators[i].udid = udid
                    /\ \A j \in 1..(i-1) : simulators[j].udid # udid
         IN  [found |-> TRUE, sim |-> simulators[k]]
    ELSE [found |-> FALSE]

\* A selection that falls back on the first booted simulator when the given
\* udid is not booted.
resolveTargetOrFirst(bootedSimulators, simulatorUDID) ==
    IF Truthy(simulatorUDID) /\ findByUdid(bootedSimulators, simulatorUDID).found
    THEN findByUdid(bootedSimulators, simulatorUDID)
    ELSE [found |-> TRUE, sim |-> bootedSimulators[1]]

\* The simulator a capture is taken from (lines 897-913): the booted one with
\* the given udid, the first of the list when no udid is given.
resolveTarget(bootedSimulators, simulatorUDID) ==
    IF Truthy(simulatorUDID)
    THEN findByUdid(bootedSimulators, simulatorUDID)
    ELSE [found |-> TRUE, sim |-> bootedSimulators[1]]

RECURSIVE JoinWords(_, _)
\* The text of a name: its words with sep between them.
JoinWords(words, sep) ==
    IF words = <<>> THEN ""
    ELSE IF Len(words) = 1 THEN words[1]
    ELSE words[1] \o sep \o JoinWords(Tail(words), sep)

\* name.replace(/[^a-zA-Z0-9]/g, "_"): the words of the names above are
\* alphanumeric, so the spaces between them are what is replaced.
safeName(name) == JoinWords(name, "_")

-----------------------------------------------------------------------------
(* What a call gives back *)

\* op: the tool called; outcome: the handler returned its JSON text or threw;
\* body: the parsed JSON text; cmds: the external commands the call ran, in
\* order; after: the tool called just before this one.
Ran(op, body, cmds) ==
    [op |-> op, outcome |-> "returned", body |-> body, cmds |-> cmds, after |-> ret.op]
RanAndThrew(op, what, cmds) ==
    [op |-> op, outcome |-> "threw", body |-> [exception |-> what], cmds |-> cmds,
     after |-> ret.op]
Returned(op, body) == Ran(op, body, <<>>)
Threw(op, what) == RanAndThrew(op, what, <<>>)

\* The -1 of findIndex used as a position: it addresses the last record.
findIndexLast(previews, id) ==
    IF \E i \in 1..Len(previews) : previews[i].id = id
    THEN CHOOSE i \in 1..Len(previews) :
            /\ previews[i].id = id
            /\ \A j \in 1..(i-1) : previews[j].id # id
    ELSE Len(previews)

\* findIndex: the first position holding the id, 0 when there is none.
findIndex(previews, id) ==
    IF \E i \in 1..Len(previews) : previews[i].id = id
    THEN CHOOSE i \in 1..Len(previews) :
            /\ previews[i].id = id
            /\ \A j \in 1..(i-1) : previews[j].id # id
    ELSE 0

\* splice(0, 1) in place of splice(index, 1): the first record goes.
RemoveAtFirst(s, i) == Tail(s)

\* splice(index, 1)
RemoveAt(s, i) == [j \in 1..(Len(s)-1) |-> IF j < i THEN s[j] ELSE s[j+1]]

-----------------------------------------------------------------------------
(* Arguments the calls are tried with *)

Titles == {"T1"}
Subtitles == {"S1"}
OptDevices == {Undef, "ipad_11"}
OptPalettes == {Undef, "sunset"}

\* deviceId and paletteId both left out, or both given.
AddArgs ==
    {a \in [screenshotPath : {"/u/a.png", MissingFile},
            title : Titles, subtitle : Subtitles,
            deviceId : OptDevices, paletteId : OptPalettes] :
        (a.deviceId = Undef) <=> (a.paletteId = Undef)}

\* The ids generated so far (some may have been removed since) and one never generated.
Ids == {generateId(t) : t \in 1..now} \cup {"preview_none"}

\* No field supplied, one field supplied (each of the five), all five supplied;
\* an empty title; a new screenshotPath that does not exist, alone and with a
\* new title.
NoFields ==
    [title |-> Undef, subtitle |-> Undef, screenshotPath |-> Undef,
     deviceId |-> Undef, paletteId |-> Undef]

AllFields ==
    [title |-> "T2", subtitle |-> "S2", screenshotPath |-> "/u/b.png",
     deviceId |-> "ipad_12_9", paletteId |-> "coral"]

UpdateFields ==
    {NoFields, AllFields}
    \cup {[NoFields EXCEPT ![f] = AllFields[f]] : f \in DOMAIN AllFields}
    \cup {[NoFields EXCEPT !.title = ""],
          [NoFields EXCEPT !.screenshotPath = MissingFile],
          [NoFields EXCEPT !.title = "T2", !.screenshotPath = MissingFile]}

UpdateArgs == {Put(f, "id", id) : f \in UpdateFields, id \in Ids}

SettingsArgs ==
    [defaultDeviceType : {Undef, "ipad_11"},
     defaultPaletteId : {Undef, "sunset"},
     outputDirectory : {Undef, "/tmp/x"},
     language : {Undef, "", "en"}]

\* confirm: true, confirm: false, and an arguments object without confirm
ConfirmArgs == {[confirm |-> TRUE], [confirm |-> FALSE], [other |-> Undef]}

\* The presence of confirm tested in place of its value.
ConfirmedIfPresent(args) == "confirm" \in DOMAIN args

\* !args.confirm is false
Confirmed(args) == "confirm" \in DOMAIN args /\ args.confirm = TRUE

\* What "xcrun simctl list devices booted -j" may print: nothing booted; a
\* tablet listed before two phones, next to a shut-down phone and a booted
\* watch of another runtime family.
Device(name, udid, state) == [name |-> name, udid |-> udid, state |-> state]

SimctlOutputs ==
    { <<>>,
      << [runtime |-> [family |-> "iOS", version |-> <<17, 2>>],
          devices |-> << Device(<<"iPad", "Air">>, "UDID-B", "Booted"),
                         Device(<<"iPhone", "SE">>, "UDID-D", "Shutdown"),
                         Device(<<"iPhone", "15", "Pro", "Max">>, "UDID-C", "Booted"),
                         Device(<<"iPhone", "15">>, "UDID-A", "Booted") >>],
         [runtime |-> [family |-> "watchOS", version |-> <<10, 2>>],
          devices |-> << Device(<<"Apple", "Watch">>, "UDID-W", "Booted") >>] >> }

\* simulatorUDID: not given, a booted phone, a watch
OptUdids == {Undef, "UDID-A", "UDID-W"}

\* The query fails; the query returns and no device is booted.
QueryFailed == [ok |-> FALSE]
NothingBooted == [ok |-> TRUE, entries |-> <<>>]

\* The query either fails or prints one of these.
ListOutcomes == {[ok |-> FALSE]} \cup {[ok |-> TRUE, entries |-> e] : e \in SimctlOutputs}

\* An external command returns or fails.
CmdOutcomes == {"ok", "fails"}

\* A screenshot command writes its file, returns without a file, or fails.
ShotOutcomes == {"file", "nofile", "fails"}

GenerateArgs == [outputDirectory : {Undef, "/tmp/out"}, exportAllSizes : {FALSE}]

\* The screens list of length n: the second screen names its palette.
Screens(n) ==
    [i \in 1..n |-> [title |-> "Screen " \o ToString(i), subtitle |-> "S1",
                     paletteId |-> IF i = 2 THEN "sunset" ELSE Undef]]

\* Store values handed to saveStore: previews in both orders, settings with
\* every field at two values and language also empty.
SamplePreview(t, path) ==
    [id |-> generateId(t), screenshotPath |-> path, title |-> "T1", subtitle |-> "S1",
     deviceId |-> "iphone_6_7", paletteId |-> "ocean", createdAt |-> toISOString(t)]

StoreValues ==
    [previews : { <<>>,
                  << SamplePreview(1, "/u/a.png") >>,
                  << SamplePreview(1, "/u/a.png"), SamplePreview(2, "/u/b.png") >>,
                  << SamplePreview(2, "/u/b.png"), SamplePreview(1, "/u/a.png") >> },
     settings : [defaultDeviceType : {"iphone_6_7", "ipad_11"},
                 defaultPaletteId : {"ocean", "sunset"},
                 outputDirectory : {"~/Desktop/Previews", "/tmp/x"},
                 language : {"ko", "en", ""}]]

\* Simulator names: up to MaxNameLen of these words with one space between
\* them.  No word holds another one, so that a run of words occurs in a name
\* exactly when its text is a substring of the text of the name.
NameWords ==
    {"iPhone", "iPad", "14", "15", "16", "Pro", "Max", "Plus", "SE", "Air", "Mini",
     "11", "12.9", "(12.9", "Watch"}

Names == UNION {[1..k -> NameWords] : k \in 0..MaxNameLen}

\* Booted simulators for the target selection: a Pro Max, a Pro, two plain
\* phones, a tablet and one the user named Mini.
BootedPool ==
    { Device(<<"iPhone", "15", "Pro", "Max">>, "UDID-C", "Booted"),
      Device(<<"iPhone", "15", "Pro">>, "UDID-E", "Booted"),
      Device(<<"iPhone", "15">>, "UDID-A", "Booted"),
      Device(<<"iPhone", "14">>, "UDID-F", "Booted"),
      Device(<<"iPad", "Air">>, "UDID-B", "Booted"),
      Device(<<"Mini">>, "UDID-G", "Booted") }

\* Up to MaxBooted different simulators of the pool in any order, as the
\* devices of one iOS runtime; the same next to a shut-down Pro Max and a
\* booted watch of the watchOS runtime.
BootedSeqs ==
    {devs \in UNION {[1..k -> BootedPool] : k \in 0..MaxBooted} :
        \A i, j \in 1..Len(devs) : i # j => devs[i] # devs[j]}

Listings ==
    {<< [runtime |-> [family |-> "iOS", version |-> <<17, 2>>], devices |-> devs] >> :
        devs \in BootedSeqs}
    \cup
    {<< [runtime |-> [family |-> "watchOS", version |-> <<10, 2>>],
         devices |-> << Device(<<"Apple", "Watch">>, "UDID-W", "Booted") >>],
        [runtime |-> [family |-> "iOS", version |-> <<17, 2>>],
         devices |-> << Device(<<"iPhone", "14", "Pro", "Max">>, "UDID-D", "Shutdown") >>
                     \o devs] >> :
        devs \in BootedSeqs}

\* capture_simulator: deviceId and paletteId both left out, or both given.
CaptureSimulatorArgs ==
    {a \in [title : Titles, subtitle : Subtitles,
            deviceId : OptDevices, paletteId : OptPalettes,
            simulatorUDID : OptUdids] :
        (a.deviceId = Undef) <=> (a.paletteId = Undef)}

\* mdfind prints a path, prints nothing, fails.
MdfindOutcomes == {"found", "empty", "fails"}

\* The simulators that have the application installed: none, one that is
\* not the first of the booted ones.
InstalledSets == {{}, {"UDID-A"}}

\* Names that are none of the tools of the server.
UnknownToolNames == {"preview_add", ""}

LaunchArgs ==
    {a \in [bundleId : {<<"com", "example", "app">>},
            title : Titles, subtitle : Subtitles,
            platform : {Undef, "auto", "ios", "macos"},
            deviceId : OptDevices, paletteId : OptPalettes,
            simulatorUDID : {Undef, "UDID-A"}] :
        (a.deviceId = Undef) <=> (a.paletteId = Undef)}

CaptureScreensArgs ==
    [bundleId : {<<"com", "example", "app">>},
     screens : {Screens(n) : n \in 0..MaxScreens},
     simulatorUDID : OptUdids]

-----------------------------------------------------------------------------
(* Initial state: a fresh process on a machine where the store file is      *)
(* absent, was written by an earlier version, or cannot be parsed.          *)

Init ==
    /\ storeFile \in {Absent, JsonFile(LegacyDoc), Corrupt}
    /\ shots = {}
    /\ pendingFile = Absent
    /\ lastLaunchedSimulator = Null
    /\ now = 0
    /\ calls = 0
    /\ running = <<>>
    /\ ret = [op |-> "none", outcome |-> "returned", body |-> [success |-> TRUE],
              cmds |-> <<>>, after |-> "none"]

-----------------------------------------------------------------------------
(* Handlers *)

\* handleAddPreview
handleAddPreview(args) ==
    /\ UNCHANGED <<shots, pendingFile, lastLaunchedSimulator>>
    /\ IF ~existsSync(args.screenshotPath)
       THEN /\ ret' = Returned("add_preview",
                        [success |-> FALSE, error |-> "Screenshot not found"])
            /\ UNCHANGED <<storeFile, now>>
       ELSE IF loadStoreThrows(storeFile)
       THEN /\ ret' = Threw("add_preview", "SyntaxError")
            /\ UNCHANGED <<storeFile, now>>
       ELSE LET store == loadStore(storeFile)
                preview == [id |-> generateId(now + 1),
                            screenshotPath |-> args.screenshotPath,
                            title |-> args.title,
                            subtitle |-> args.subtitle,
                            deviceId |-> OrElse(args.deviceId, Get(store.settings, "defaultDeviceType")),
                            paletteId |-> OrElse(args.paletteId, Get(store.settings, "defaultPaletteId")),
                            createdAt |-> toISOString(now + 1)]
                pushed == [store EXCEPT !.previews = Append(@, preview)]
            IN  /\ now < MaxClock
                /\ storeFile' = saveStore(pushed)
                /\ now' = now + 1
                /\ ret' = Returned("add_preview",
                            [success |-> TRUE, preview |-> preview,
                             totalPreviews |-> Len(pushed.previews)])

\* handleListPreviews
handleListPreviews ==
    /\ UNCHANGED <<storeFile, shots, pendingFile, lastLaunchedSimulator, now>>
    /\ IF loadStoreThrows(storeFile)
       THEN ret' = Threw("list_previews", "SyntaxError")
       ELSE LET store == loadStore(storeFile)
            IN  ret' = Returned("list_previews",
                        [success |-> TRUE, count |-> Len(store.previews),
                         previews |-> store.previews])

\* handleRemovePreview
handleRemovePreview(args) ==
    /\ UNCHANGED <<shots, pendingFile, lastLaunchedSimulator, now>>
    /\ IF loadStoreThrows(storeFile)
       THEN /\ ret' = Threw("remove_preview", "SyntaxError")
            /\ UNCHANGED storeFile
       ELSE LET store == loadStore(storeFile)
                index == findIndex(store.previews, args.id)
            IN  IF index = 0
                THEN /\ ret' = Returned("remove_preview",
                                [success |-> FALSE, error |-> "Preview not found"])
                     /\ UNCHANGED storeFile
                ELSE LET spliced == [store EXCEPT !.previews = RemoveAt(@, index)]
                     IN  /\ storeFile' = saveStore(spliced)
                         /\ ret' = Returned("remove_preview",
                                    [success |-> TRUE, removed |-> store.previews[index],
                                     remainingPreviews |-> Len(spliced.previews)])

\* if (args.f) preview.f = args.f: the key is added when the record found
\* does not have it.
Assign(preview, f, v) == IF Truthy(v) THEN Put(preview, f, v) ELSE preview

\* The assignments of handleUpdatePreview to the record found (lines 610-622),
\* for a call that reaches saveStore.
ApplyUpdate(preview, args) ==
    Assign(Assign(Assign(Assign(Assign(preview,
        "title", args.title),
        "subtitle", args.subtitle),
        "screenshotPath", args.screenshotPath),
        "deviceId", args.deviceId),
        "paletteId", args.paletteId)

\* The fields assigned before the screenshot check written to the store
\* file when the check fails.
UpdatePreviewEffectSavesEarly(args) ==
    IF loadStoreThrows(storeFile)
    THEN [storeFile |-> storeFile, ret |-> Threw("update_preview", "SyntaxError")]
    ELSE LET store == loadStore(storeFile)
             index == findIndex(store.previews, args.id)
         IN  IF index = 0
             THEN [storeFile |-> storeFile,
                   ret |-> Returned("update_preview",
                            [success |-> FALSE, error |-> "Preview not found"])]
             ELSE IF Truthy(args.screenshotPath) /\ ~existsSync(args.screenshotPath)
             THEN [storeFile |->
                      saveStore([store EXCEPT !.previews[index] =
                          ApplyUpdate(@, [args EXCEPT !.screenshotPath = Undef,
                                                      !.deviceId = Undef,
                                                      !.paletteId = Undef])]),
                   ret |-> Returned("update_preview",
                            [success |-> FALSE, error |-> "Screenshot not found"])]
             ELSE LET preview == ApplyUpdate(store.previews[index], args)
                      updated == [store EXCEPT !.previews[index] = preview]
                  IN  [storeFile |-> saveStore(updated),
                       ret |-> Returned("update_preview",
                                [success |-> TRUE, preview |-> preview])]

\* handleUpdatePreview as a function of the state it is called in: the store
\* file it leaves and what it gives back.
UpdatePreviewEffect(args) ==
    IF loadStoreThrows(storeFile)
    THEN [storeFile |-> storeFile, ret |-> Threw("update_preview", "SyntaxError")]
    ELSE LET store == loadStore(storeFile)
             index == findIndex(store.previews, args.id)
         IN  IF index = 0
             THEN [storeFile |-> storeFile,
                   ret |-> Returned("update_preview",
                            [success |-> FALSE, error |-> "Preview not found"])]
             ELSE IF Truthy(args.screenshotPath) /\ ~existsSync(args.screenshotPath)
             THEN [storeFile |-> storeFile,
                   ret |-> Returned("update_preview",
                            [success |-> FALSE, error |-> "Screenshot not found"])]
             ELSE LET preview == ApplyUpdate(store.previews[index], args)
                      updated == [store EXCEPT !.previews[index] = preview]
                  IN  [storeFile |-> saveStore(updated),
                       ret |-> Returned("update_preview",
                                [success |-> TRUE, preview |-> preview])]

\* handleUpdatePreview
handleUpdatePreview(args) ==
    /\ UNCHANGED <<shots, pendingFile, lastLaunchedSimulator, now>>
    /\ storeFile' = UpdatePreviewEffect(args).storeFile
    /\ ret' = UpdatePreviewEffect(args).ret

\* handleClearAll without its saveStore.
handleClearAllNoSave(args) ==
    /\ UNCHANGED <<storeFile, shots, pendingFile, lastLaunchedSimulator, now>>
    /\ IF ~Confirmed(args)
       THEN ret' = Returned("clear_all",
                    [success |-> FALSE, error |-> "Please set confirm: true to clear all previews"])
       ELSE IF loadStoreThrows(storeFile)
       THEN ret' = Threw("clear_all", "SyntaxError")
       ELSE ret' = Returned("clear_all",
                    [success |-> TRUE, cleared |-> Len(loadStore(storeFile).previews)])

\* handleClearAll
handleClearAll(args) ==
    /\ UNCHANGED <<shots, pendingFile, lastLaunchedSimulator, now>>
    /\ IF ~Confirmed(args)
       THEN /\ ret' = Returned("clear_all",
                        [success |-> FALSE, error |-> "Please set confirm: true to clear all previews"])
            /\ UNCHANGED storeFile
       ELSE IF loadStoreThrows(storeFile)
       THEN /\ ret' = Threw("clear_all", "SyntaxError")
            /\ UNCHANGED storeFile
       ELSE LET store == loadStore(storeFile)
                cleared == [store EXCEPT !.previews = <<>>]
            IN  /\ storeFile' = saveStore(cleared)
                /\ ret' = Returned("clear_all",
                            [success |-> TRUE, cleared |-> Len(store.previews)])

\* handleGetSettings
handleGetSettings ==
    /\ UNCHANGED <<storeFile, shots, pendingFile, lastLaunchedSimulator, now>>
    /\ IF loadStoreThrows(storeFile)
       THEN ret' = Threw("get_settings", "SyntaxError")
       ELSE ret' = Returned("get_settings",
                     [success |-> TRUE, settings |-> loadStore(storeFile).settings])

\* The assignments of handleUpdateSettings to store.settings (lines 774-785).
ApplySettings(settings, args) ==
    LET s1 == IF Truthy(args.defaultDeviceType)
              THEN Put(settings, "defaultDeviceType", args.defaultDeviceType) ELSE settings
        s2 == IF Truthy(args.defaultPaletteId)
              THEN Put(s1, "defaultPaletteId", args.defaultPaletteId) ELSE s1
        s3 == IF Truthy(args.outputDirectory)
              THEN Put(s2, "outputDirectory", args.outputDirectory) ELSE s2
    IN  IF Truthy(args.language) THEN Put(s3, "language", args.language) ELSE s3

\* An update of the settings that gives the new defaults to the previews
\* already stored.
handleUpdateSettingsRefill(args) ==
    /\ UNCHANGED <<shots, pendingFile, lastLaunchedSimulator, now>>
    /\ IF loadStoreThrows(storeFile)
       THEN /\ ret' = Threw("update_settings", "SyntaxError")
            /\ UNCHANGED storeFile
       ELSE LET store == loadStore(storeFile)
                settings == ApplySettings(store.settings, args)
                updated ==
                    [previews |-> [i \in 1..Len(store.previews) |->
                                     [store.previews[i] EXCEPT
                                        !.deviceId = Get(settings, "defaultDeviceType"),
                                        !.paletteId = Get(settings, "defaultPaletteId")]],
                     settings |-> settings]
            IN  /\ storeFile' = saveStore(updated)
                /\ ret' = Returned("update_settings",
                            [success |-> TRUE, settings |-> updated.settings])

\* handleUpdateSettings
handleUpdateSettings(args) ==
    /\ UNCHANGED <<shots, pendingFile, lastLaunchedSimulator, now>>
    /\ IF loadStoreThrows(storeFile)
       THEN /\ ret' = Threw("update_settings", "SyntaxError")
            /\ UNCHANGED storeFile
       ELSE LET store == loadStore(storeFile)
                updated == [store EXCEPT !.settings = ApplySettings(@, args)]
            IN  /\ storeFile' = saveStore(updated)
                /\ ret' = Returned("update_settings",
                            [success |-> TRUE, settings |-> updated.settings])

\* The first screen whose screenshot command fails, n + 1 when none does.
FirstFailure(outs) ==
    IF \E i \in 1..Len(outs) : outs[i] = "fails"
    THEN CHOOSE i \in 1..Len(outs) :
            outs[i] = "fails" /\ \A j \in 1..(i-1) : outs[j] # "fails"
    ELSE Len(outs) + 1

\* An application identifier is the sequence of its dot-separated words.
BundleText(bundleId) == JoinWords(bundleId, ".")

\* args.bundleId.replace(/[^a-zA-Z0-9]/g, "_")
safeBundleId(bundleId) == JoinWords(bundleId, "_")

\* `${safeBundleId}_screen${i + 1}_${timestamp}.png` in SCREENSHOTS_DIR
\* (lines 1431-1436).
ScreenFile(bundleId, i, timestamp) ==
    ShotPath(safeBundleId(bundleId) \o "_screen" \o ToString(i), timestamp)

\* The loop of handleCaptureAppScreens (lines 1422-1457) run alone over the
\* screens before position `stop`.  Screen i draws the timestamp of its file
\* name (1432) after one tick for each screen before it and one for each
\* preview pushed before it; its preview draws its id and createdAt (1445,
\* 1451) at the next tick, when it is pushed.
ScreenTick(outs, i) == now + i + Cardinality({j \in 1..(i - 1) : outs[j] = "file"})

ScreenPath(bundleId, outs, i) == ScreenFile(bundleId, i, ScreenTick(outs, i))

\* The existence check of line 1443 left out: every screen tried gives a preview.
ScreenPreviewsAll(bundleId, store, screens, outs, stop, autoDeviceId) ==
    LET all == [i \in 1..(stop - 1) |->
                    [i |-> i,
                     preview |-> [id |-> generateId(ScreenTick(outs, i) + 1),
                                  screenshotPath |-> ScreenPath(bundleId, outs, i),
                                  title |-> screens[i].title,
                                  subtitle |-> screens[i].subtitle,
                                  deviceId |-> autoDeviceId,
                                  paletteId |-> OrElse(screens[i].paletteId,
                                                    Get(store.settings, "defaultPaletteId")),
                                  createdAt |-> toISOString(ScreenTick(outs, i) + 1)]]]
        kept == all
    IN  [k \in 1..Len(kept) |-> kept[k].preview]

\* The previews pushed by the loop: one for each screen whose file exists.
ScreenPreviews(bundleId, store, screens, outs, stop, autoDeviceId) ==
    LET all == [i \in 1..(stop - 1) |->
                    [i |-> i,
                     preview |-> [id |-> generateId(ScreenTick(outs, i) + 1),
                                  screenshotPath |-> ScreenPath(bundleId, outs, i),
                                  title |-> screens[i].title,
                                  subtitle |-> screens[i].subtitle,
                                  deviceId |-> autoDeviceId,
                                  paletteId |-> OrElse(screens[i].paletteId,
                                                    Get(store.settings, "defaultPaletteId")),
                                  createdAt |-> toISOString(ScreenTick(outs, i) + 1)]]]
        kept == SelectSeq(all, LAMBDA c : outs[c.i] = "file")
    IN  [k \in 1..Len(kept) |-> kept[k].preview]

ScreenFiles(bundleId, outs, stop) ==
    {ScreenPath(bundleId, outs, i) : i \in {j \in 1..(stop - 1) : outs[j] = "file"}}

\* A terminate command whose failure ends the relaunch.
relaunchStrict(terminate, launch) ==
    IF terminate = "fails"
    THEN [cmds |-> <<"terminate">>, launched |-> FALSE]
    ELSE [cmds |-> <<"terminate", "launch">>, launched |-> launch = "ok"]

\* try { simctl terminate } catch {} followed by simctl launch (lines
\* 1283-1300, 1406-1413, 1618-1631): the commands run, and whether the
\* launch returned.  The failure of the terminate command is caught and
\* ignored.
relaunch(terminate, launch) ==
    [cmds |-> <<"terminate", "launch">>, launched |-> launch = "ok"]

\* What handleCaptureAppScreens does with the outcomes of its commands: the
\* query `list`, the terminate, the launch, and the screenshot commands `outs`
\* (read only when the loop is reached).  The first screenshot command that
\* fails ends the loop through the outer catch (1471): the screens after it
\* are not tried.
CaptureAppScreensEffect(args, list, terminate, launch, outs) ==
    LET op == "capture_app_screens"
        failed(msg, cmds) ==
            [storeFile |-> storeFile, shots |-> shots, now |-> now,
             ret |-> Ran(op, [success |-> FALSE, error |-> msg], cmds)]
    IN
    IF Len(args.screens) = 0
    THEN failed("No screens defined to capture", <<>>)
    ELSE IF ~list.ok
    THEN failed("Capture app screens failed", <<"list">>)
    ELSE LET bootedSimulators == getBootedSimulators(list.entries)
             wanted == IF Truthy(args.simulatorUDID)
                       THEN findByUdid(bootedSimulators, args.simulatorUDID)
                       ELSE [found |-> TRUE, sim |-> bootedSimulators[1]]
         IN
         IF Len(bootedSimulators) = 0
         THEN failed("No iOS Simulator is running", <<"list">>)
         ELSE IF ~wanted.found
         THEN failed("Specified simulator not found", <<"list">>)
         ELSE IF ~relaunch(terminate, launch).launched
         THEN failed("Capture app screens failed",
                     <<"list">> \o relaunch(terminate, launch).cmds)
         ELSE IF loadStoreThrows(storeFile)
         THEN failed("Capture app screens failed",
                     <<"list">> \o relaunch(terminate, launch).cmds)
         ELSE LET store == loadStore(storeFile)
                  stop == FirstFailure(outs)
                  tried == IF stop <= Len(outs) THEN stop ELSE Len(outs)
                  cmds == <<"list">> \o relaunch(terminate, launch).cmds
                          \o [i \in 1..tried |-> "screenshot"]
                  captured == ScreenPreviews(args.bundleId, store, args.screens, outs, stop,
                                  mapSimulatorToDeviceId(wanted.sim.name))
                  pushed == [store EXCEPT !.previews = @ \o captured]
              IN  [shots |-> shots \cup ScreenFiles(args.bundleId, outs, stop),
                   now |-> IF stop <= Len(outs) THEN ScreenTick(outs, stop)
                           ELSE ScreenTick(outs, stop) - 1,
                   storeFile |-> IF stop <= Len(outs) THEN storeFile ELSE saveStore(pushed),
                   ret |-> IF stop <= Len(outs)
                           THEN Ran(op, [success |-> FALSE,
                                         error |-> "Capture app screens failed"], cmds)
                           ELSE Ran(op,
                                    [success |-> TRUE,
                                     message |-> "Captured " \o ToString(Len(captured))
                                                 \o " screens from " \o BundleText(args.bundleId),
                                     simulator |-> [name |-> wanted.sim.name,
                                                    udid |-> wanted.sim.udid],
                                     previews |-> captured,
                                     totalPreviews |-> Len(pushed.previews)], cmds)]

\* The call gets as far as the terminate and launch commands.
ReachesLaunch(args, list) ==
    /\ Len(args.screens) > 0
    /\ list.ok
    /\ Len(getBootedSimulators(list.entries)) > 0
    /\ Truthy(args.simulatorUDID)
          => findByUdid(getBootedSimulators(list.entries), args.simulatorUDID).found

\* A check that takes the file for written whenever the command returned.
screenshotWrittenAssumed(shot) == TRUE

\* fs.existsSync(screenshotPath) after a screenshot command that returned.
screenshotWritten(shot) == shot = "file"

\* The invocations suspended at an await, without the k-th.
Others(k) == SubSeq(running, 1, k - 1) \o SubSeq(running, k + 1, Len(running))

\* handleCaptureAppScreens as the dispatcher starts it on a request: the
\* handler returns at 1379-1384 when there is no screen, and otherwise runs
\* to its first await, the query of getBootedSimulators (line 1386), where
\* it stays suspended.  The locals not yet assigned are undefined.
handleCaptureAppScreens(args) ==
    /\ UNCHANGED <<storeFile, shots, pendingFile, lastLaunchedSimulator, now>>
    /\ IF Len(args.screens) = 0
       THEN /\ ret' = Returned("capture_app_screens",
                        [success |-> FALSE, error |-> "No screens defined to capture"])
            /\ UNCHANGED running
       ELSE /\ running' = Append(running,
                            [op |-> "capture_app_screens",
                             at |-> "list",
                             args |-> args,
                             cmds |-> <<>>,
                             capturedPreviews |-> <<>>,
                             i |-> 0,
                             timestamp |-> 0,
                             screenshotPath |-> Undef,
                             rejected |-> FALSE])
            /\ UNCHANGED ret

\* A loop that takes the screen again when its screenshot left no file.
nextScreenRetrying(i, shot) == IF shot = "nofile" THEN i ELSE i + 1

\* i++ of the loop over args.screens (line 1422), whatever the screenshot gave.
nextScreen(i, shot) == i + 1

\* The suspended invocation k of handleCaptureAppScreens goes on from its
\* await to the next one, or to its return (lines 1386-1476):
\*   "list"            the query returns or fails; the target is chosen;
\*   "terminate"       the terminate command returns or fails, both caught;
\*   "launch"          the launch command returns or fails; after the wait of
\*                     line 1415 the store is loaded (1417) and the timestamp
\*                     of the file name of the first screen is drawn (1432);
\*   "sleep"           the wait before screen i ends (1428) and the timestamp
\*                     of its file name is drawn (1432);
\*   "screenshot"      the screenshot command of screen i runs (1438): it
\*                     writes its file, writes none, or fails;
\*   "screenshot_done" the handler takes the result of the command: a failure
\*                     leaves through the outer catch; otherwise the file is
\*                     looked for (1443), the preview is pushed on the store
\*                     loaded at 1417, and the loop goes on to the wait of
\*                     the next screen or saves that store (1459) and
\*                     returns.
\* The id and createdAt of a preview are drawn when it is pushed (1445,
\* 1451), after the await of its screenshot command.  The record of the
\* invocation holds targetSimulator and store from the step that assigns
\* them.
ResumeCaptureAppScreens(k) ==
    /\ k \in 1..Len(running)
    /\ running[k].op = "capture_app_screens"
    /\ UNCHANGED <<pendingFile, lastLaunchedSimulator, calls>>
    /\ \E r \in {running[k]} :
         LET op == "capture_app_screens"
             failed(msg, cmds) ==
                 /\ running' = Others(k)
                 /\ ret' = Ran(op, [success |-> FALSE, error |-> msg], cmds)
             goOn(next) ==
                 /\ running' = [running EXCEPT ![k] = next]
                 /\ UNCHANGED ret
         IN
         CASE r.at = "list" ->
                /\ UNCHANGED <<storeFile, shots, now>>
                /\ \E list \in ListOutcomes :
                     IF ~list.ok
                     THEN failed("Capture app screens failed", <<"list">>)
                     ELSE LET bootedSimulators == getBootedSimulators(list.entries)
                          IN  IF Len(bootedSimulators) = 0
                              THEN failed("No iOS Simulator is running", <<"list">>)
                              ELSE IF ~resolveTarget(bootedSimulators,
                                                     r.args.simulatorUDID).found
                              THEN failed("Specified simulator not found", <<"list">>)
                              ELSE goOn([Put(r, "targetSimulator",
                                             resolveTarget(bootedSimulators,
                                                           r.args.simulatorUDID).sim)
                                         EXCEPT !.at = "terminate",
                                                !.cmds = <<"list">>])
           [] r.at = "terminate" ->
                /\ UNCHANGED <<storeFile, shots, now>>
                /\ \E terminate \in CmdOutcomes :
                     goOn([r EXCEPT !.at = "launch",
                                    !.cmds = Append(@, "terminate")])
           [] r.at = "launch" ->
                /\ UNCHANGED <<storeFile, shots>>
                /\ \E launch \in CmdOutcomes :
                     IF launch = "fails" \/ loadStoreThrows(storeFile)
                     THEN /\ failed("Capture app screens failed", Append(r.cmds, "launch"))
                          /\ UNCHANGED now
                     ELSE /\ now < MaxClock
                          /\ now' = now + 1
                          /\ goOn([Put(r, "store", loadStore(storeFile))
                                   EXCEPT !.at = "screenshot",
                                          !.cmds = Append(@, "launch"),
                                          !.i = 1,
                                          !.timestamp = now + 1,
                                          !.screenshotPath =
                                              ScreenFile(r.args.bundleId, 1, now + 1)])
           [] r.at = "sleep" ->
                /\ now < MaxClock
                /\ now' = now + 1
                /\ UNCHANGED <<storeFile, shots>>
                /\ goOn([r EXCEPT !.at = "screenshot",
                                  !.timestamp = now + 1,
                                  !.screenshotPath =
                                      ScreenFile(r.args.bundleId, r.i, now + 1)])
           [] r.at = "screenshot" ->
                /\ UNCHANGED <<storeFile, now>>
                /\ \E shot \in ShotOutcomes :
                     /\ shots' = IF shot = "file" THEN shots \cup {r.screenshotPath}
                                 ELSE shots
                     /\ goOn([r EXCEPT !.at = "screenshot_done",
                                       !.cmds = Append(@, "screenshot"),
                                       !.rejected = (shot = "fails")])
           [] r.at = "screenshot_done" ->
                /\ UNCHANGED shots
                /\ IF r.rejected
                   THEN /\ failed("Capture app screens failed", r.cmds)
                        /\ UNCHANGED <<storeFile, now>>
                   ELSE LET screen == r.args.screens[r.i]
                            written == existsSync(r.screenshotPath)
                            preview ==
                                [id |-> generateId(now + 1),
                                 screenshotPath |-> r.screenshotPath,
                                 title |-> screen.title,
                                 subtitle |-> screen.subtitle,
                                 deviceId |-> mapSimulatorToDeviceId(r.targetSimulator.name),
                                 paletteId |-> OrElse(screen.paletteId,
                                                 Get(r.store.settings, "defaultPaletteId")),
                                 createdAt |-> toISOString(now + 1)]
                            store == IF written
                                     THEN [r.store EXCEPT !.previews = Append(@, preview)]
                                     ELSE r.store
                            capturedPreviews == IF written
                                                THEN Append(r.capturedPreviews, preview)
                                                ELSE r.capturedPreviews
                            next == nextScreen(r.i, IF written THEN "file" ELSE "nofile")
                        IN  /\ now' = IF written THEN now + 1 ELSE now
                            /\ IF next <= Len(r.args.screens)
                               THEN /\ goOn([r EXCEPT !.at = "sleep",
                                                      !.store = store,
                                                      !.capturedPreviews = capturedPreviews,
                                                      !.i = next])
                                    /\ UNCHANGED storeFile
                               ELSE /\ running' = Others(k)
                                    /\ storeFile' = saveStore(store)
                                    /\ ret' = Ran(op,
                                          [success |-> TRUE,
                                           message |-> "Captured "
                                                       \o ToString(Len(capturedPreviews))
                                                       \o " screens from "
                                                       \o BundleText(r.args.bundleId),
                                           simulator |-> [name |-> r.targetSimulator.name,
                                                          udid |-> r.targetSimulator.udid],
                                           previews |-> capturedPreviews,
                                           totalPreviews |-> Len(store.previews)], r.cmds)

\* The ticks of the clock that a suspended invocation may still draw: one
\* for the file name of each capture it has still to run and one for the id
\* of each preview it may still push.
ScreensLeft(r) ==
    IF r.op = "capture_simulator"
    THEN (IF r.at = "list" THEN 2
          ELSE IF r.rejected THEN 0 ELSE 1)
    ELSE IF r.op = "launch_and_capture" THEN 1
    ELSE IF r.op = "create_app_previews"
    THEN (IF r.at \in {"open -b", "open dataDir"} THEN 0
          ELSE IF r.i = 0 THEN 2 * Len(r.args.previews)
          ELSE IF r.at = "sleep" THEN 2 * (Len(r.args.previews) - r.i + 1)
          ELSE IF r.at = "screenshot_done" /\ r.rejected THEN 0
          ELSE 2 * (Len(r.args.previews) - r.i) + 1)
    ELSE IF r.op # "capture_app_screens" THEN 0
    ELSE IF r.at \in {"list", "terminate", "launch"} THEN 2 * Len(r.args.screens)
    ELSE IF r.at = "sleep" THEN 2 * (Len(r.args.screens) - r.i + 1)
    ELSE IF r.rejected THEN 0
    ELSE 2 * (Len(r.args.screens) - r.i) + 1

RECURSIVE TurnsLeft(_)
\* The same for all the suspended invocations.
TurnsLeft(invocations) ==
    IF invocations = <<>> THEN 0
    ELSE ScreensLeft(Head(invocations)) + TurnsLeft(Tail(invocations))

\* The default of the store taken before the identifier of the name.
previewDeviceIdStoreFirst(deviceId, autoDeviceId, settings) ==
    OrElse(deviceId, OrElse(Get(settings, "defaultDeviceType"), autoDeviceId))

\* deviceId: args.deviceId || autoDeviceId (line 953); the settings of the
\* store are not read for it.
previewDeviceId(deviceId, autoDeviceId, settings) == OrElse(deviceId, autoDeviceId)

\* What handleCaptureSimulator does with the outcome of the query `list` and
\* of the screenshot command `shot` (read only when a target was found).  A
\* failing query is taken as no simulator booted (lines 883-887); the
\* timestamp of the file name is drawn at tick now + 1 (916), the id and
\* createdAt of the preview at tick now + 2, when it is pushed after the
\* await of the command (949, 955); loadStore throwing after the file was
\* written is caught by the outer catch (976-982).
CaptureSimulatorEffect(args, list, shot) ==
    LET op == "capture_simulator"
        failed(body, cmds, t) ==
            [storeFile |-> storeFile, shots |-> shots, now |-> t,
             ret |-> Ran(op, body, cmds)]
        bootedSimulators == IF list.ok THEN getBootedSimulators(list.entries) ELSE <<>>
        wanted == resolveTarget(bootedSimulators, args.simulatorUDID)
    IN
    IF Len(bootedSimulators) = 0
    THEN failed([success |-> FALSE, error |-> "No iOS Simulator is running"], <<"list">>, now)
    ELSE IF ~wanted.found
    THEN failed([success |-> FALSE,
                 error |-> "Simulator with UDID " \o args.simulatorUDID \o " is not booted",
                 bootedSimulators |-> bootedSimulators], <<"list">>, now)
    ELSE LET targetSimulator == wanted.sim
             screenshotPath == ShotPath("screenshot_" \o safeName(targetSimulator.name),
                                        now + 1)
             cmds == <<"list", "screenshot">>
         IN
         IF shot = "fails"
         THEN failed([success |-> FALSE,
                      error |-> "Failed to capture from "
                                \o JoinWords(targetSimulator.name, " ")], cmds, now + 1)
         ELSE IF ~screenshotWritten(shot)
         THEN failed([success |-> FALSE, error |-> "Failed to capture screenshot"],
                     cmds, now + 1)
         ELSE IF loadStoreThrows(storeFile)
         THEN [storeFile |-> storeFile, shots |-> shots \cup {screenshotPath},
               now |-> now + 1,
               ret |-> Ran(op, [success |-> FALSE,
                                error |-> "Failed to capture simulator"], cmds)]
         ELSE LET autoDeviceId == mapSimulatorToDeviceId(targetSimulator.name)
                  store == loadStore(storeFile)
                  preview ==
                    [id |-> generateId(now + 2),
                     screenshotPath |-> screenshotPath,
                     title |-> args.title,
                     subtitle |-> args.subtitle,
                     deviceId |-> previewDeviceId(args.deviceId, autoDeviceId, store.settings),
                     paletteId |-> OrElse(args.paletteId,
                                     Get(store.settings, "defaultPaletteId")),
                     createdAt |-> toISOString(now + 2)]
                  pushed == [store EXCEPT !.previews = Append(@, preview)]
                  others == SelectSeq(bootedSimulators,
                                LAMBDA x : x.udid # targetSimulator.udid)
                  body == [success |-> TRUE,
                           message |-> "Screenshot captured from "
                                       \o JoinWords(targetSimulator.name, " "),
                           capturedFrom |-> targetSimulator,
                           autoDetectedDeviceId |-> autoDeviceId,
                           preview |-> preview,
                           totalPreviews |-> Len(pushed.previews)]
              IN  [storeFile |-> saveStore(pushed),
                   shots |-> shots \cup {screenshotPath},
                   now |-> now + 2,
                   ret |-> Ran(op,
                               IF Len(bootedSimulators) > 1
                               THEN Put(body, "otherBootedSimulators", others)
                               ELSE body, cmds)]

\* The call finds a simulator to capture from.
FindsTarget(args, list) ==
    /\ list.ok
    /\ Len(getBootedSimulators(list.entries)) > 0
    /\ resolveTarget(getBootedSimulators(list.entries), args.simulatorUDID).found

RECURSIVE FlattenAll(_)
\* The booted devices of every runtime, in the order of the simctl output
\* (handleListSimulators, lines 998-1019: no runtime is skipped).
FlattenAll(entries) ==
    IF entries = <<>> THEN <<>>
    ELSE LET e == Head(entries)
             booted == SelectSeq(e.devices, LAMBDA d : d.state = "Booted")
         IN  [i \in 1..Len(booted) |->
                 [name |-> booted[i].name, udid |-> booted[i].udid,
                  runtime |-> runtimeVersion(e.runtime)]]
             \o FlattenAll(Tail(entries))

\* What list_simulators returns on an outcome of the simctl query.
ListSimulatorsBody(list) ==
    IF ~list.ok
    THEN [success |-> FALSE, error |-> "Failed to list simulators",
          hint |-> "Make sure Xcode Command Line Tools are installed"]
    ELSE LET bootedDevices == FlattenAll(list.entries)
         IN  IF Len(bootedDevices) = 0
             THEN [success |-> TRUE, count |-> 0,
                   message |-> "No simulators are currently running",
                   hint |-> "Launch a simulator using Xcode or 'xcrun simctl boot <device>'",
                   simulators |-> <<>>]
             ELSE [success |-> TRUE, count |-> Len(bootedDevices),
                   simulators |-> bootedDevices]

\* handleListSimulators as the dispatcher starts it: it stays suspended at
\* the query of the booted devices (line 987).
handleListSimulators ==
    /\ UNCHANGED <<storeFile, shots, pendingFile, lastLaunchedSimulator, now, ret>>
    /\ running' = Append(running,
                     [op |-> "list_simulators", at |-> "list", cmds |-> <<>>])

\* The query returns or fails, and handleListSimulators answers.
ResumeListSimulators(k) ==
    /\ k \in 1..Len(running)
    /\ running[k].op = "list_simulators"
    /\ UNCHANGED <<storeFile, shots, pendingFile, lastLaunchedSimulator, now, calls>>
    /\ running' = Others(k)
    /\ \E list \in ListOutcomes :
         ret' = Ran("list_simulators", ListSimulatorsBody(list), <<"list">>)

\* handleCaptureSimulator as the dispatcher starts it: it stays suspended at
\* the query of getBootedSimulators (line 884).
handleCaptureSimulator(args) ==
    /\ UNCHANGED <<storeFile, shots, pendingFile, lastLaunchedSimulator, now, ret>>
    /\ running' = Append(running,
                     [op |-> "capture_simulator",
                      at |-> "list",
                      args |-> args,
                      cmds |-> <<>>,
                      timestamp |-> 0,
                      screenshotPath |-> Undef,
                      rejected |-> FALSE])

\* The suspended invocation k of handleCaptureSimulator goes on from its
\* await to the next one, or to its return (lines 884-982):
\*   "list"            the query returns or fails (a failure is taken as no
\*                     simulator booted, 883-887); the target is chosen and
\*                     the timestamp of the file name is drawn (916);
\*   "screenshot"      the screenshot command runs (925): it writes its file,
\*                     writes none, or fails;
\*   "screenshot_done" the handler takes the result of the command: a failure
\*                     is answered (928-933); otherwise the file is looked
\*                     for (936), the store is loaded (947), the preview
\*                     pushed and the store saved (958-959).
\* The id and createdAt of the preview are drawn when it is pushed (949,
\* 955), after the await of the command.
ResumeCaptureSimulator(k) ==
    /\ k \in 1..Len(running)
    /\ running[k].op = "capture_simulator"
    /\ UNCHANGED <<pendingFile, lastLaunchedSimulator, calls>>
    /\ \E r \in {running[k]} :
         LET op == "capture_simulator"
             failed(body, cmds) ==
                 /\ running' = Others(k)
                 /\ ret' = Ran(op, body, cmds)
                 /\ UNCHANGED storeFile
             goOn(next) ==
                 /\ running' = [running EXCEPT ![k] = next]
                 /\ UNCHANGED <<ret, storeFile>>
         IN
         CASE r.at = "list" ->
                /\ UNCHANGED shots
                /\ \E list \in ListOutcomes :
                     LET bootedSimulators ==
                             IF list.ok THEN getBootedSimulators(list.entries) ELSE <<>>
                         wanted == resolveTarget(bootedSimulators, r.args.simulatorUDID)
                     IN  IF Len(bootedSimulators) = 0
                         THEN /\ failed([success |-> FALSE,
                                         error |-> "No iOS Simulator is running"],
                                        <<"list">>)
                              /\ UNCHANGED now
                         ELSE IF ~wanted.found
                         THEN /\ failed([success |-> FALSE,
                                         error |-> "Simulator with UDID "
                                                   \o r.args.simulatorUDID
                                                   \o " is not booted",
                                         bootedSimulators |-> bootedSimulators],
                                        <<"list">>)
                              /\ UNCHANGED now
                         ELSE /\ now < MaxClock
                              /\ now' = now + 1
                              /\ goOn([Put(Put(r, "bootedSimulators", bootedSimulators),
                                           "targetSimulator", wanted.sim)
                                       EXCEPT !.at = "screenshot", !.cmds = <<"list">>,
                                              !.timestamp = now + 1,
                                              !.screenshotPath =
                                                  ShotPath("screenshot_"
                                                           \o safeName(wanted.sim.name),
                                                           now + 1)])
           [] r.at = "screenshot" ->
                /\ UNCHANGED now
                /\ \E shot \in ShotOutcomes :
                     /\ shots' = IF shot = "file"
                                 THEN shots \cup {r.screenshotPath}
                                 ELSE shots
                     /\ goOn([r EXCEPT !.at = "screenshot_done",
                                       !.cmds = Append(@, "screenshot"),
                                       !.rejected = (shot = "fails")])
           [] r.at = "screenshot_done" ->
                /\ UNCHANGED shots
                /\ IF r.rejected
                   THEN /\ failed([success |-> FALSE,
                                   error |-> "Failed to capture from "
                                             \o JoinWords(r.targetSimulator.name, " ")],
                                  r.cmds)
                        /\ UNCHANGED now
                   ELSE IF ~existsSync(r.screenshotPath)
                   THEN /\ failed([success |-> FALSE,
                                   error |-> "Failed to capture screenshot"], r.cmds)
                        /\ UNCHANGED now
                   ELSE IF loadStoreThrows(storeFile)
                   THEN /\ failed([success |-> FALSE,
                                   error |-> "Failed to capture simulator"], r.cmds)
                        /\ UNCHANGED now
                   ELSE LET autoDeviceId == mapSimulatorToDeviceId(r.targetSimulator.name)
                            store == loadStore(storeFile)
                            preview ==
                              [id |-> generateId(now + 1),
                               screenshotPath |-> r.screenshotPath,
                               title |-> r.args.title,
                               subtitle |-> r.args.subtitle,
                               deviceId |-> previewDeviceId(r.args.deviceId, autoDeviceId,
                                                            store.settings),
                               paletteId |-> OrElse(r.args.paletteId,
                                               Get(store.settings, "defaultPaletteId")),
                               createdAt |-> toISOString(now + 1)]
                            pushed == [store EXCEPT !.previews = Append(@, preview)]
                            others == SelectSeq(r.bootedSimulators,
                                          LAMBDA x : x.udid # r.targetSimulator.udid)
                            body == [success |-> TRUE,
                                     message |-> "Screenshot captured from "
                                                 \o JoinWords(r.targetSimulator.name, " "),
                                     capturedFrom |-> r.targetSimulator,
                                     autoDetectedDeviceId |-> autoDeviceId,
                                     preview |-> preview,
                                     totalPreviews |-> Len(pushed.previews)]
                        IN  /\ running' = Others(k)
                            /\ now' = now + 1
                            /\ storeFile' = saveStore(pushed)
                            /\ ret' = Ran(op,
                                          IF Len(r.bootedSimulators) > 1
                                          THEN Put(body, "otherBootedSimulators", others)
                                          ELSE body, r.cmds)

\* The position of the first simulator that has the application installed
\* (xcrun simctl get_app_container returns), Len + 1 when none has.
FirstInstalled(simulators, installed) ==
    IF \E i \in 1..Len(simulators) : simulators[i].udid \in installed
    THEN CHOOSE i \in 1..Len(simulators) :
            /\ simulators[i].udid \in installed
            /\ \A j \in 1..(i - 1) : simulators[j].udid \notin installed
    ELSE Len(simulators) + 1

\* The get_app_container commands of a search that stops at the first hit.
Probes(simulators, installed) ==
    LET stop == FirstInstalled(simulators, installed)
    IN  [i \in 1..(IF stop > Len(simulators) THEN Len(simulators) ELSE stop)
            |-> "get_app_container"]

\* return null of detectPlatform
NotDetected == "<null>"

\* A detection that takes the application for a simulator one whenever the
\* desktop does not have it.
detectPlatformOrIos(mdfind, detectList, installed) ==
    IF mdfind = "found"
    THEN [platform |-> "macos", cmds |-> <<"mdfind">>]
    ELSE [platform |-> "ios", cmds |-> <<"mdfind", "list">>]

\* A detection that gives up when mdfind fails.
detectPlatformStrict(mdfind, detectList, installed) ==
    IF mdfind = "found"
    THEN [platform |-> "macos", cmds |-> <<"mdfind">>]
    ELSE IF mdfind = "fails" \/ ~detectList.ok
    THEN [platform |-> NotDetected, cmds |-> <<"mdfind">>]
    ELSE [platform |-> IF FirstInstalled(getBootedSimulators(detectList.entries), installed)
                            <= Len(getBootedSimulators(detectList.entries))
                       THEN "ios" ELSE NotDetected,
          cmds |-> <<"mdfind", "list">>
                   \o Probes(getBootedSimulators(detectList.entries), installed)]

\* detectPlatform: mdfind prints a path, prints nothing or fails; then the
\* booted simulators are asked one after the other.
detectPlatform(mdfind, detectList, installed) ==
    IF mdfind = "found"
    THEN [platform |-> "macos", cmds |-> <<"mdfind">>]
    ELSE IF ~detectList.ok
    THEN [platform |-> NotDetected, cmds |-> <<"mdfind", "list">>]
    ELSE LET simulators == getBootedSimulators(detectList.entries)
         IN  [platform |-> IF FirstInstalled(simulators, installed) <= Len(simulators)
                           THEN "ios" ELSE NotDetected,
              cmds |-> <<"mdfind", "list">> \o Probes(simulators, installed)]

\* A capture command returns with or without its file, or fails after or
\* before it wrote it.
WindowShotOutcomes == ShotOutcomes \cup {"fails, file"}

\* The command left the file behind.
Wrote(out) == out \in {"file", "fails, file"}

\* The command threw.
ExitFailed(out) == out \in {"fails", "fails, file"}

\* The runs of captureMacOSWindow: the question for the window id gives an
\* id, an empty answer or fails; with an id the window is captured by id; a
\* failure of that command, an empty answer and a failed question lead to the
\* fallback: activate the application, then capture the front window.
MacCaptureRuns ==
    LET fallbacks == {[activate |-> "fails", front |-> "skipped"]}
                     \cup {[activate |-> "ok", front |-> f] : f \in WindowShotOutcomes}
    IN  {[window |-> "id", byId |-> b, activate |-> "skipped", front |-> "skipped"] :
            b \in {"file", "nofile"}}
        \cup {[window |-> w.window, byId |-> w.byId,
               activate |-> f.activate, front |-> f.front] :
                w \in {[window |-> "id", byId |-> "fails"],
                       [window |-> "id", byId |-> "fails, file"],
                       [window |-> "empty", byId |-> "skipped"],
                       [window |-> "fails", byId |-> "skipped"]},
                f \in fallbacks}

\* The result of captureMacOSWindow taken from the exit status of the capture
\* command.
captureMacOSWindowByExit(run) ==
    LET first == IF run.window = "id" THEN <<"osascript id", "screencapture -l">>
                 ELSE <<"osascript id">>
    IN  IF run.window = "id" /\ ~ExitFailed(run.byId)
        THEN [captured |-> TRUE, written |-> Wrote(run.byId), cmds |-> first]
        ELSE IF run.activate = "fails"
        THEN [captured |-> FALSE, written |-> Wrote(run.byId),
              cmds |-> first \o <<"osascript activate">>]
        ELSE [captured |-> ~ExitFailed(run.front),
              written |-> Wrote(run.byId) \/ Wrote(run.front),
              cmds |-> first \o <<"osascript activate", "screencapture -w">>]

\* captureMacOSWindow: what it returns, whether the file exists at the end,
\* and the commands run.  fs.existsSync is asked after a capture command
\* that returned (1104, 1118); a capture command that throws leads to the
\* fallback (1106) or to return false (1119-1121).
captureMacOSWindow(run) ==
    LET first == IF run.window = "id" THEN <<"osascript id", "screencapture -l">>
                 ELSE <<"osascript id">>
    IN  IF run.window = "id" /\ ~ExitFailed(run.byId)
        THEN [captured |-> Wrote(run.byId), written |-> Wrote(run.byId), cmds |-> first]
        ELSE IF run.activate = "fails"
        THEN [captured |-> FALSE, written |-> Wrote(run.byId),
              cmds |-> first \o <<"osascript activate">>]
        ELSE [captured |-> ~ExitFailed(run.front) /\ (Wrote(run.byId) \/ Wrote(run.front)),
              written |-> Wrote(run.byId) \/ Wrote(run.front),
              cmds |-> first \o <<"osascript activate", "screencapture -w">>]

\* The search for the application left out: the booted simulator with the
\* given udid, else the first of the list.
launchTargetFirst(bootedSimulators, simulatorUDID, installed) ==
    LET byUdid == IF Truthy(simulatorUDID)
                  THEN findByUdid(bootedSimulators, simulatorUDID)
                  ELSE [found |-> FALSE]
    IN  IF byUdid.found
        THEN [sim |-> byUdid.sim, cmds |-> <<>>]
        ELSE [sim |-> bootedSimulators[1],
              cmds |-> Probes(bootedSimulators, installed)]

\* The simulator handleLaunchAndCapture launches on (lines 1256-1277): the
\* booted one with the given udid, else the first that has the application
\* installed, else the first of the list.
launchTarget(bootedSimulators, simulatorUDID, installed) ==
    LET byUdid == IF Truthy(simulatorUDID)
                  THEN findByUdid(bootedSimulators, simulatorUDID)
                  ELSE [found |-> FALSE]
        hit == FirstInstalled(bootedSimulators, installed)
    IN  IF byUdid.found
        THEN [sim |-> byUdid.sim, cmds |-> <<>>]
        ELSE [sim |-> IF hit <= Len(bootedSimulators)
                      THEN bootedSimulators[hit] ELSE bootedSimulators[1],
              cmds |-> Probes(bootedSimulators, installed)]

\* A return of handleLaunchAndCapture that leaves the files and the session
\* as they were; the timestamp was drawn on entry (line 1195).
LaunchFailed(body, cmds, session) ==
    [storeFile |-> storeFile, shots |-> shots, now |-> now + 1,
     last |-> session, ret |-> Ran("launch_and_capture", body, cmds)]

\* A return after the screenshot command was run and left no file.
LaunchNotCaptured(body, cmds, last) ==
    [storeFile |-> storeFile, shots |-> shots, now |-> now + 1,
     last |-> last, ret |-> Ran("launch_and_capture", body, cmds)]

\* The end of handleLaunchAndCapture (lines 1337-1357) once the file is
\* written: loadStore, push, saveStore; loadStore throwing is caught by the
\* outer catch (1358-1362).  t is the tick at which the preview is pushed,
\* where its id and createdAt are drawn (1337, 1343); `last` is the
\* simulator launched on.
LaunchStored(args, platform, screenshotPath, deviceId, cmds, last, t) ==
    IF loadStoreThrows(storeFile)
    THEN [storeFile |-> storeFile, shots |-> shots \cup {screenshotPath},
          now |-> t - 1, last |-> last,
          ret |-> Ran("launch_and_capture",
                      [success |-> FALSE, error |-> "Launch and capture failed"], cmds)]
    ELSE LET store == loadStore(storeFile)
             preview ==
               [id |-> generateId(t),
                screenshotPath |-> screenshotPath,
                title |-> args.title,
                subtitle |-> args.subtitle,
                deviceId |-> deviceId,
                paletteId |-> OrElse(args.paletteId,
                                Get(store.settings, "defaultPaletteId")),
                createdAt |-> toISOString(t)]
             pushed == [store EXCEPT !.previews = Append(@, preview)]
             body == [success |-> TRUE,
                      message |-> "App launched and captured (" \o platform
                                  \o "): " \o BundleText(args.bundleId),
                      platform |-> platform,
                      waitedSeconds |-> 3,
                      preview |-> preview,
                      totalPreviews |-> Len(pushed.previews)]
         IN  [storeFile |-> saveStore(pushed),
              shots |-> shots \cup {screenshotPath},
              now |-> t, last |-> last,
              ret |-> Ran("launch_and_capture",
                          IF platform = "macos" THEN body
                          ELSE Put(body, "simulator", [name |-> last.name,
                                                       udid |-> last.udid]), cmds)]

\* The desktop path (lines 1216-1245) after the commands `before`.
LaunchOnDesktop(args, env, session, before, window) ==
    IF env.open = "fails"
    THEN LaunchFailed([success |-> FALSE,
                       error |-> "Failed to launch macOS app: open failed",
                       bundleId |-> BundleText(args.bundleId)],
                      before \o <<"open -b">>, session)
    ELSE IF ~window.captured
    THEN [LaunchNotCaptured([success |-> FALSE,
                             error |-> "Failed to capture macOS window",
                             hint |-> "Make sure the app has a visible window"],
                            before \o <<"open -b">> \o window.cmds, session)
            EXCEPT !.shots = IF window.written
                             THEN @ \cup {ShotPath(safeBundleId(args.bundleId) \o "_mac",
                                                   now + 1)}
                             ELSE @]
    ELSE LaunchStored(args, "macos",
                      ShotPath(safeBundleId(args.bundleId) \o "_mac", now + 1),
                      OrElse(args.deviceId, "mac_retina"),
                      before \o <<"open -b">> \o window.cmds, session, now + 2)

\* The simulator path from the terminate command on (lines 1279-1335), on
\* the target chosen; `launched` are the commands up to the launch.  The
\* failure of the terminate command is caught and ignored (1282-1287); the
\* screenshot command is in no try block but the outer one.
LaunchOnTarget(args, env, session, launched, tracked) ==
    IF ~relaunch(env.terminate, env.launch).launched
    THEN LaunchFailed([success |-> FALSE,
                       error |-> "Failed to launch app: launch failed",
                       hint |-> "Make sure the app is installed on the simulator",
                       bundleId |-> BundleText(args.bundleId),
                       simulator |-> tracked.name], launched, session)
    ELSE IF env.shot = "fails"
    THEN LaunchNotCaptured([success |-> FALSE, error |-> "Launch and capture failed"],
                           launched \o <<"screenshot">>, tracked)
    ELSE IF ~screenshotWritten(env.shot)
    THEN LaunchNotCaptured([success |-> FALSE, error |-> "Screenshot capture failed"],
                           launched \o <<"screenshot">>, tracked)
    ELSE LaunchStored(args, "ios",
                      ShotPath(safeBundleId(args.bundleId) \o "_ios", now + 1),
                      OrElse(args.deviceId, mapSimulatorToDeviceId(tracked.name)),
                      launched \o <<"screenshot">>, tracked, now + 2)

\* The simulator path taking up the simulator of the last launch when the
\* call names none.
LaunchOnSimulatorsResumed(args, env, session, before, bootedSimulators) ==
    LET wanted == IF Truthy(args.simulatorUDID) \/ session = Null
                  THEN args.simulatorUDID ELSE session.udid
    IN
    IF Len(bootedSimulators) = 0
    THEN LaunchFailed([success |-> FALSE, error |-> "No iOS Simulator is running",
                       hint |-> "Please launch an iOS Simulator first"],
                      before \o <<"list">>, session)
    ELSE LaunchOnTarget(args, env, session,
            before \o <<"list">>
            \o launchTarget(bootedSimulators, wanted, env.installed).cmds
            \o relaunch(env.terminate, env.launch).cmds,
            [udid |-> launchTarget(bootedSimulators, wanted, env.installed).sim.udid,
             name |-> launchTarget(bootedSimulators, wanted, env.installed).sim.name,
             bundleId |-> BundleText(args.bundleId)])

\* The simulator path (lines 1247-1277) after the commands `before`, on the
\* simulators the query gave.
LaunchOnSimulators(args, env, session, before, bootedSimulators) ==
    IF Len(bootedSimulators) = 0
    THEN LaunchFailed([success |-> FALSE, error |-> "No iOS Simulator is running",
                       hint |-> "Please launch an iOS Simulator first"],
                      before \o <<"list">>, session)
    ELSE LaunchOnTarget(args, env, session,
            before \o <<"list">>
            \o launchTarget(bootedSimulators, args.simulatorUDID, env.installed).cmds
            \o relaunch(env.terminate, env.launch).cmds,
            [udid |-> launchTarget(bootedSimulators, args.simulatorUDID,
                                   env.installed).sim.udid,
             name |-> launchTarget(bootedSimulators, args.simulatorUDID,
                                   env.installed).sim.name,
             bundleId |-> BundleText(args.bundleId)])

\* handleLaunchAndCapture from the platform on (lines 1209-1357).
LaunchOnPlatform(args, env, session, detected) ==
    IF detected.platform = NotDetected
    THEN LaunchFailed([success |-> FALSE,
                       error |-> "App not found: " \o BundleText(args.bundleId),
                       hint |-> "Make sure the app is installed on macOS or iOS simulator"],
                      detected.cmds, session)
    ELSE IF detected.platform = "macos"
    THEN LaunchOnDesktop(args, env, session, detected.cmds, captureMacOSWindow(env.mac))
    ELSE IF ~env.list.ok
    THEN LaunchFailed([success |-> FALSE, error |-> "Launch and capture failed"],
                      detected.cmds \o <<"list">>, session)
    ELSE LaunchOnSimulators(args, env, session, detected.cmds,
                            getBootedSimulators(env.list.entries))

\* platform = args.platform || "auto"; platform === "auto"
AutoPlatform(args) == OrElse(Get(args, "platform"), "auto") = "auto"

\* What handleLaunchAndCapture does under the outcomes env of its commands:
\* mdfind, detectList, installed for the detection; open and mac on the
\* desktop; list, installed, launch and shot on a simulator.  The file name
\* takes the tick now + 1, drawn on entry (1195), and the id of the preview
\* the tick now + 2, drawn when it is pushed (1337).  `session` is
\* lastLaunchedSimulator as the call finds it.
LaunchAndCaptureEffect(args, env, session) ==
    LaunchOnPlatform(args, env, session,
        IF AutoPlatform(args)
        THEN detectPlatform(env.mdfind, env.detectList, env.installed)
        ELSE [platform |-> args.platform, cmds |-> <<>>])

\* The default case of the dispatcher (lines 1792-1793): no handler is called.
UnknownTool(name) ==
    /\ ret' = Returned(name, [error |-> "Unknown tool: " \o name])
    /\ UNCHANGED <<storeFile, shots, pendingFile, lastLaunchedSimulator, now>>

\* No outcome is read beyond the ones a run of the handler gets to; the
\* unread ones are set as here.
UnreadOutcomes ==
    [mdfind |-> "empty", detectList |-> QueryFailed, installed |-> {},
     open |-> "ok",
     mac |-> [window |-> "id", byId |-> "file", activate |-> "skipped",
              front |-> "skipped"],
     list |-> QueryFailed, terminate |-> "ok", launch |-> "ok", shot |-> "file"]

\* The udids of the simulators getBootedSimulators returns on a listing.
DiscoveredUdids(list) ==
    IF list.ok
    THEN {getBootedSimulators(list.entries)[i].udid :
            i \in 1..Len(getBootedSimulators(list.entries))}
    ELSE {}

\* The outcomes read on the desktop path: open fails, or it returns and the
\* window is captured in one of the ways of captureMacOSWindow.
DesktopOutcomes(d) ==
    {[d EXCEPT !.open = "fails"]} \cup {[d EXCEPT !.mac = mac] : mac \in MacCaptureRuns}

\* The outcomes read on the simulator path: the query fails or lists no
\* simulator; or the launch fails; or the screenshot command is run.
SimulatorOutcomes(d) ==
    {[d EXCEPT !.list = list] : list \in {l \in ListOutcomes : DiscoveredUdids(l) = {}}}
    \cup {[d EXCEPT !.list = list, !.launch = "fails"] :
            list \in {l \in ListOutcomes : DiscoveredUdids(l) # {}}}
    \cup {[d EXCEPT !.list = list, !.terminate = "fails", !.launch = launch] :
            list \in {l \in ListOutcomes : DiscoveredUdids(l) # {}},
            launch \in CmdOutcomes}
    \cup {[d EXCEPT !.list = list, !.shot = shot] :
            list \in {l \in ListOutcomes : DiscoveredUdids(l) # {}},
            shot \in ShotOutcomes}

\* mdfind does not find the application and no simulator of the listing has it.
FoundNowhere(mdfind, detectList, installed) ==
    /\ mdfind # "found"
    /\ DiscoveredUdids(detectList) \cap installed = {}

\* The outcomes one call reads, by the path it takes.
LaunchOutcomes(args) ==
    IF ~AutoPlatform(args)
    THEN IF args.platform = "macos"
         THEN DesktopOutcomes(UnreadOutcomes)
         ELSE UNION {SimulatorOutcomes([UnreadOutcomes EXCEPT !.installed = installed]) :
                        installed \in InstalledSets}
    ELSE DesktopOutcomes([UnreadOutcomes EXCEPT !.mdfind = "found"])
         \cup UNION {IF FoundNowhere(d.mdfind, d.detectList, d.installed)
                     THEN {d} ELSE SimulatorOutcomes(d) :
                        d \in {[UnreadOutcomes EXCEPT !.mdfind = mdfind,
                                   !.detectList = detectList, !.installed = installed] :
                                 mdfind \in MdfindOutcomes \ {"found"},
                                 detectList \in ListOutcomes,
                                 installed \in InstalledSets}}

\* The awaits of captureMacOSWindow (lines 1093-1122) one after the other,
\* for the file screenshotPath: the moves it may make from the await `at`.
\* A move names the commands that ran, whether the capture command left the
\* file and whether it threw, and either the next await or, when the function
\* returns, what it returns:
\*   "osascript id"          the question gives a window id, or gives none
\*                           or fails, which leads to the fallback;
\*   "screencapture -l"      the capture by window id runs;
\*   "screencapture -l_done" its failure leads to the fallback (1106), its
\*                           return to fs.existsSync (1104);
\*   "osascript activate"    a failure returns false (1119-1121);
\*   "screencapture -w"      the capture of the front window runs;
\*   "screencapture -w_done" its failure returns false, its return leads to
\*                           fs.existsSync (1118).
captureMacOSWindowStep(at, rejected, screenshotPath) ==
    LET move(next, cmds, wrote, threw) ==
            [done |-> FALSE, captured |-> FALSE, at |-> next, cmds |-> cmds,
             wrote |-> wrote, rejected |-> threw]
        result(captured, cmds) ==
            [done |-> TRUE, captured |-> captured, at |-> at, cmds |-> cmds,
             wrote |-> FALSE, rejected |-> FALSE]
    IN  CASE at = "osascript id" ->
                {move("screencapture -l", <<"osascript id">>, FALSE, FALSE),
                 move("osascript activate", <<"osascript id">>, FALSE, FALSE)}
          [] at = "screencapture -l" ->
                {move("screencapture -l_done", <<"screencapture -l">>,
                      Wrote(out), ExitFailed(out)) : out \in WindowShotOutcomes}
          [] at = "screencapture -l_done" ->
                IF rejected
                THEN {move("osascript activate", <<>>, FALSE, FALSE)}
                ELSE {result(existsSync(screenshotPath), <<>>)}
          [] at = "osascript activate" ->
                {result(FALSE, <<"osascript activate">>),
                 move("screencapture -w", <<"osascript activate">>, FALSE, FALSE)}
          [] at = "screencapture -w" ->
                {move("screencapture -w_done", <<"screencapture -w">>,
                      Wrote(out), ExitFailed(out)) : out \in WindowShotOutcomes}
          [] at = "screencapture -w_done" ->
                IF rejected
                THEN {result(FALSE, <<>>)}
                ELSE {result(existsSync(screenshotPath), <<>>)}

\* handleLaunchAndCapture as the dispatcher starts it on a request: the
\* timestamp of the file name is drawn (line 1195) and the handler runs to
\* its first await, where it stays suspended: mdfind of detectPlatform when
\* the platform is "auto" or not given (1201), the open command on "macos"
\* (1222), the query of getBootedSimulators otherwise (1249).  `installed`
\* are the simulators on which get_app_container finds the application
\* during the call.
handleLaunchAndCapture(args) ==
    /\ now < MaxClock
    /\ now' = now + 1
    /\ UNCHANGED <<storeFile, shots, pendingFile, lastLaunchedSimulator, ret>>
    /\ \E installed \in InstalledSets :
         running' = Append(running,
            [op |-> "launch_and_capture",
             at |-> IF AutoPlatform(args) THEN "mdfind"
                    ELSE IF args.platform = "macos" THEN "open -b" ELSE "list",
             args |-> args,
             cmds |-> <<>>,
             timestamp |-> now + 1,
             platform |-> OrElse(Get(args, "platform"), "auto"),
             installed |-> installed,
             i |-> 0,
             screenshotPath |-> IF ~AutoPlatform(args) /\ args.platform = "macos"
                                THEN ShotPath(safeBundleId(args.bundleId) \o "_mac", now + 1)
                                ELSE Undef,
             rejected |-> FALSE])

\* The suspended invocation k of handleLaunchAndCapture goes on from its
\* await to the next one, or to its return (lines 1201-1363):
\*   "mdfind", "detect list", "detect probe"
\*                     the awaits of detectPlatform (1066, 1077, 1080): the
\*                     application is on the desktop, or on the simulator
\*                     asked, or the next simulator is asked, or it is
\*                     nowhere and the handler answers (1203-1207);
\*   "open -b"         the application is opened on the desktop, or the
\*                     handler answers (1223-1228);
\*   the awaits of captureMacOSWindow (1235), then the answer of 1237-1241
\*                     or the end below;
\*   "list"            the query of 1249 returns or fails; the target is the
\*                     booted simulator of the udid given (1258-1260) or is
\*                     looked for;
\*   "get_app_container"
\*                     simulator i is asked (1266): it is the target, or the
\*                     next one is asked, or the first one is taken (1276);
\*   "terminate"       returns or fails, both caught (1284-1289);
\*   "launch"          fails and the handler answers (1294-1302), or returns
\*                     and lastLaunchedSimulator is set (1305-1309);
\*   "screenshot"      the screenshot command runs (1315): it writes its
\*                     file, writes none, or fails;
\*   "screenshot_done" a failure leaves through the outer catch; a missing
\*                     file is answered (1317-1322);
\*   the end (1335-1357): loadStore, push with the id and createdAt drawn
\*                     then (1337, 1343), saveStore, answer.
ResumeLaunchAndCapture(k) ==
    /\ k \in 1..Len(running)
    /\ running[k].op = "launch_and_capture"
    /\ UNCHANGED <<pendingFile, calls>>
    /\ \E r \in {running[k]} :
         LET op == "launch_and_capture"
             args == r.args
             answer(body, cmds) ==
                 /\ running' = Others(k)
                 /\ ret' = Ran(op, body, cmds)
             goOn(next) ==
                 /\ running' = [running EXCEPT ![k] = next]
                 /\ UNCHANGED ret
             notFound(cmds) ==
                 answer([success |-> FALSE,
                         error |-> "App not found: " \o BundleText(args.bundleId),
                         hint |-> "Make sure the app is installed on macOS or iOS simulator"],
                        cmds)
             onDesktop(cmds) ==
                 [r EXCEPT !.at = "open -b", !.cmds = cmds, !.platform = "macos",
                           !.screenshotPath =
                               ShotPath(safeBundleId(args.bundleId) \o "_mac", r.timestamp)]
             onTarget(sim, cmds) ==
                 [Put(r, "targetSimulator", sim)
                    EXCEPT !.at = "terminate", !.cmds = cmds,
                           !.screenshotPath =
                               ShotPath(safeBundleId(args.bundleId) \o "_ios", r.timestamp)]
             stored(deviceId, tracked) ==
                 \E e \in {LaunchStored(args, r.platform, r.screenshotPath, deviceId,
                                        r.cmds, tracked, now + 1)} :
                    /\ running' = Others(k)
                    /\ now' = e.now
                    /\ storeFile' = e.storeFile
                    /\ ret' = e.ret
         IN
         CASE r.at = "mdfind" ->
                /\ UNCHANGED <<storeFile, shots, lastLaunchedSimulator, now>>
                /\ \E mdfind \in MdfindOutcomes :
                     IF mdfind = "found"
                     THEN goOn(onDesktop(<<"mdfind">>))
                     ELSE goOn([r EXCEPT !.at = "detect list", !.cmds = <<"mdfind">>])
           [] r.at = "detect list" ->
                /\ UNCHANGED <<storeFile, shots, lastLaunchedSimulator, now>>
                /\ \E detectList \in ListOutcomes :
                     IF ~detectList.ok
                     THEN notFound(Append(r.cmds, "list"))
                     ELSE LET simulators == getBootedSimulators(detectList.entries)
                          IN  IF Len(simulators) = 0
                              THEN notFound(Append(r.cmds, "list"))
                              ELSE goOn([Put(r, "simulators", simulators)
                                            EXCEPT !.at = "detect probe",
                                                   !.cmds = Append(@, "list"),
                                                   !.i = 1])
           [] r.at = "detect probe" ->
                /\ UNCHANGED <<storeFile, shots, lastLaunchedSimulator, now>>
                /\ IF r.simulators[r.i].udid \in r.installed
                   THEN goOn([r EXCEPT !.at = "list", !.platform = "ios",
                                       !.cmds = Append(@, "get_app_container")])
                   ELSE IF r.i < Len(r.simulators)
                   THEN goOn([r EXCEPT !.i = @ + 1,
                                       !.cmds = Append(@, "get_app_container")])
                   ELSE notFound(Append(r.cmds, "get_app_container"))
           [] r.at = "open -b" ->
                /\ UNCHANGED <<storeFile, shots, lastLaunchedSimulator, now>>
                /\ \E open \in CmdOutcomes :
                     IF open = "fails"
                     THEN answer([success |-> FALSE,
                                  error |-> "Failed to launch macOS app: open failed",
                                  bundleId |-> BundleText(args.bundleId)],
                                 Append(r.cmds, "open -b"))
                     ELSE goOn([r EXCEPT !.at = "osascript id",
                                         !.cmds = Append(@, "open -b")])
           [] r.at \in {"osascript id", "screencapture -l", "screencapture -l_done",
                        "osascript activate", "screencapture -w",
                        "screencapture -w_done"} ->
                /\ UNCHANGED lastLaunchedSimulator
                /\ \E m \in captureMacOSWindowStep(r.at, r.rejected, r.screenshotPath) :
                     /\ shots' = IF m.wrote THEN shots \cup {r.screenshotPath} ELSE shots
                     /\ IF ~m.done
                        THEN /\ goOn([r EXCEPT !.at = m.at, !.cmds = @ \o m.cmds,
                                               !.rejected = m.rejected])
                             /\ UNCHANGED <<storeFile, now>>
                        ELSE IF ~m.captured
                        THEN /\ answer([success |-> FALSE,
                                        error |-> "Failed to capture macOS window",
                                        hint |-> "Make sure the app has a visible window"],
                                       r.cmds \o m.cmds)
                             /\ UNCHANGED <<storeFile, now>>
                        ELSE \E e \in {LaunchStored(args, "macos", r.screenshotPath,
                                            OrElse(args.deviceId, "mac_retina"),
                                            r.cmds \o m.cmds, Null, now + 1)} :
                                /\ running' = Others(k)
                                /\ now' = e.now
                                /\ storeFile' = e.storeFile
                                /\ ret' = e.ret
           [] r.at = "list" ->
                /\ UNCHANGED <<storeFile, shots, lastLaunchedSimulator, now>>
                /\ \E list \in ListOutcomes :
                     IF ~list.ok
                     THEN answer([success |-> FALSE, error |-> "Launch and capture failed"],
                                 Append(r.cmds, "list"))
                     ELSE LET bootedSimulators == getBootedSimulators(list.entries)
                              byUdid == IF Truthy(args.simulatorUDID)
                                        THEN findByUdid(bootedSimulators, args.simulatorUDID)
                                        ELSE [found |-> FALSE]
                          IN  IF Len(bootedSimulators) = 0
                              THEN answer([success |-> FALSE,
                                           error |-> "No iOS Simulator is running",
                                           hint |-> "Please launch an iOS Simulator first"],
                                          Append(r.cmds, "list"))
                              ELSE IF byUdid.found
                              THEN goOn(onTarget(byUdid.sim, Append(r.cmds, "list")))
                              ELSE goOn([Put(r, "bootedSimulators", bootedSimulators)
                                            EXCEPT !.at = "get_app_container",
                                                   !.cmds = Append(@, "list"),
                                                   !.i = 1])
           [] r.at = "get_app_container" ->
                /\ UNCHANGED <<storeFile, shots, lastLaunchedSimulator, now>>
                /\ IF r.bootedSimulators[r.i].udid \in r.installed
                   THEN goOn(onTarget(r.bootedSimulators[r.i],
                                      Append(r.cmds, "get_app_container")))
                   ELSE IF r.i < Len(r.bootedSimulators)
                   THEN goOn([r EXCEPT !.i = @ + 1,
                                       !.cmds = Append(@, "get_app_container")])
                   ELSE goOn(onTarget(r.bootedSimulators[1],
                                      Append(r.cmds, "get_app_container")))
           [] r.at = "terminate" ->
                /\ UNCHANGED <<storeFile, shots, lastLaunchedSimulator, now>>
                /\ \E terminate \in CmdOutcomes :
                     goOn([r EXCEPT !.at = "launch", !.cmds = Append(@, "terminate")])
           [] r.at = "launch" ->
                /\ UNCHANGED <<storeFile, shots, now>>
                /\ \E launch \in CmdOutcomes :
                     IF launch = "fails"
                     THEN /\ answer([success |-> FALSE,
                                     error |-> "Failed to launch app: launch failed",
                                     hint |-> "Make sure the app is installed on the simulator",
                                     bundleId |-> BundleText(args.bundleId),
                                     simulator |-> r.targetSimulator.name],
                                    Append(r.cmds, "launch"))
                          /\ UNCHANGED lastLaunchedSimulator
                     ELSE /\ lastLaunchedSimulator' =
                                [udid |-> r.targetSimulator.udid,
                                 name |-> r.targetSimulator.name,
                                 bundleId |-> BundleText(args.bundleId)]
                          /\ goOn([r EXCEPT !.at = "screenshot",
                                            !.cmds = Append(@, "launch")])
           [] r.at = "screenshot" ->
                /\ UNCHANGED <<storeFile, lastLaunchedSimulator, now>>
                /\ \E shot \in ShotOutcomes :
                     /\ shots' = IF shot = "file" THEN shots \cup {r.screenshotPath}
                                 ELSE shots
                     /\ goOn([r EXCEPT !.at = "screenshot_done",
                                       !.cmds = Append(@, "screenshot"),
                                       !.rejected = (shot = "fails")])
           [] r.at = "screenshot_done" ->
                /\ UNCHANGED <<shots, lastLaunchedSimulator>>
                /\ IF r.rejected
                   THEN /\ answer([success |-> FALSE, error |-> "Launch and capture failed"],
                                  r.cmds)
                        /\ UNCHANGED <<storeFile, now>>
                   ELSE IF ~existsSync(r.screenshotPath)
                   THEN /\ answer([success |-> FALSE, error |-> "Screenshot capture failed"],
                                  r.cmds)
                        /\ UNCHANGED <<storeFile, now>>
                   ELSE stored(OrElse(args.deviceId,
                                      mapSimulatorToDeviceId(r.targetSimulator.name)),
                               [udid |-> r.targetSimulator.udid,
                                name |-> r.targetSimulator.name,
                                bundleId |-> BundleText(args.bundleId)])

\* handleResetAll.  unlinkSync may fail on a file of the screenshots directory
\* after any of the others were deleted, and on the payload file after the
\* store was saved.
handleResetAll(args) ==
    LET op == "reset_all" IN
    /\ UNCHANGED <<lastLaunchedSimulator, now>>
    /\ IF ~Confirmed(args)
       THEN /\ ret' = Returned(op, [success |-> FALSE,
                        error |-> "Please set confirm: true to reset all data"])
            /\ UNCHANGED <<storeFile, shots, pendingFile>>
       ELSE \/ \E left \in (SUBSET shots) \ {{}} :
                /\ shots' = left
                /\ ret' = Returned(op, [success |-> FALSE, error |-> "Reset failed"])
                /\ UNCHANGED <<storeFile, pendingFile>>
            \/ /\ shots' = {}
               /\ IF loadStoreThrows(storeFile)
                  THEN /\ ret' = Returned(op, [success |-> FALSE, error |-> "Reset failed"])
                       /\ UNCHANGED <<storeFile, pendingFile>>
                  ELSE LET store == loadStore(storeFile)
                       IN  /\ storeFile' = saveStore([store EXCEPT !.previews = <<>>])
                           /\ \/ /\ pendingFile' = Absent
                                 /\ ret' = Returned(op,
                                      [success |-> TRUE,
                                       deleted |-> [screenshots |-> Cardinality(shots),
                                                    previews |-> Len(store.previews)]])
                              \/ /\ pendingFile # Absent
                                 /\ pendingFile' = pendingFile
                                 /\ ret' = Returned(op, [success |-> FALSE,
                                                         error |-> "Reset failed"])

\* The data directory never opened after a failed activation.
RevealNever(op, body, cmds, reveal) == Ran(op, body, cmds \o <<"open -b">>)

\* The end of a handoff: the activation was tried and failed, the data
\* directory is revealed; that command is outside every try block.
Reveal(op, body, cmds, reveal) ==
    IF reveal = "ok"
    THEN Ran(op, body, cmds \o <<"open -b", "open dataDir">>)
    ELSE RanAndThrew(op, "open dataDir failed", cmds \o <<"open -b", "open dataDir">>)

\* handleOpenApp as the dispatcher starts it on a request: the store is
\* loaded and pending-previews.json is written (lines 654-659), then the
\* handler stays suspended at the activation command (663) with the two
\* answers it may give.
handleOpenApp ==
    LET op == "open_app" IN
    /\ UNCHANGED <<storeFile, shots, lastLaunchedSimulator, now>>
    /\ IF loadStoreThrows(storeFile)
       THEN /\ ret' = Threw(op, "SyntaxError")
            /\ UNCHANGED <<pendingFile, running>>
       ELSE LET store == loadStore(storeFile)
            IN  /\ pendingFile' = JsonFile(store.previews)
                /\ running' = Append(running,
                       [op |-> op, at |-> "open -b",
                        opened |-> [success |-> TRUE,
                                    previewsLoaded |-> Len(store.previews)],
                        notInstalled |-> [success |-> TRUE, appInstalled |-> FALSE,
                                          previewCount |-> Len(store.previews)]])
                /\ UNCHANGED ret

\* handleGeneratePreviews as the dispatcher starts it on a request: it
\* returns when the store has no preview; with no output directory in the
\* arguments and none in the settings, fs.mkdirSync(undefined) throws
\* (lines 701-706), outside every try block; otherwise it writes the payload
\* (712-721) and stays suspended at the activation command (725).
handleGeneratePreviews(args) ==
    LET op == "generate_previews" IN
    /\ UNCHANGED <<storeFile, shots, lastLaunchedSimulator, now>>
    /\ IF loadStoreThrows(storeFile)
       THEN /\ ret' = Threw(op, "SyntaxError")
            /\ UNCHANGED <<pendingFile, running>>
       ELSE LET store == loadStore(storeFile)
                outputDir == OrElse(args.outputDirectory, Get(store.settings, "outputDirectory"))
                exportData == [previews |-> store.previews,
                               options |-> [outputDirectory |-> outputDir,
                                            exportAllSizes |-> args.exportAllSizes = TRUE,
                                            autoGenerate |-> TRUE]]
            IN  IF Len(store.previews) = 0
                THEN /\ ret' = Returned(op, [success |-> FALSE,
                                error |-> "No previews to generate. Add some previews first."])
                     /\ UNCHANGED <<pendingFile, running>>
                ELSE IF ~Truthy(outputDir)
                THEN /\ ret' = Threw(op, "TypeError")
                     /\ UNCHANGED <<pendingFile, running>>
                ELSE /\ pendingFile' = JsonFile(exportData)
                     /\ running' = Append(running,
                            [op |-> op, at |-> "open -b",
                             opened |-> [success |-> TRUE, outputDirectory |-> outputDir],
                             notInstalled |-> [success |-> TRUE, appInstalled |-> FALSE,
                                               outputDirectory |-> outputDir,
                                               previewCount |-> Len(store.previews)]])
                     /\ UNCHANGED ret

\* The suspended invocation k of handleOpenApp or handleGeneratePreviews goes
\* on: the activation command returns and the handler answers, or it fails
\* and the handler stays suspended at the command that opens the data
\* directory (lines 663-673, 725-739); that command returns or fails, and the
\* handler answers or throws.
ResumeHandoff(k) ==
    /\ k \in 1..Len(running)
    /\ running[k].op \in {"open_app", "generate_previews"}
    /\ UNCHANGED <<storeFile, shots, pendingFile, lastLaunchedSimulator, now, calls>>
    /\ \E r \in {running[k]} :
         IF r.at = "open -b"
         THEN \E activate \in CmdOutcomes :
                IF activate = "ok"
                THEN /\ running' = Others(k)
                     /\ ret' = Ran(r.op, r.opened, <<"open -b">>)
                ELSE /\ running' = [running EXCEPT ![k].at = "open dataDir"]
                     /\ UNCHANGED ret
         ELSE \E reveal \in CmdOutcomes :
                /\ running' = Others(k)
                /\ ret' = Reveal(r.op, r.notInstalled, <<>>, reveal)

\* const palettes = [...] of handleCreateAppPreviews
palettes == <<"ocean", "sunset", "forest", "lavender", "coral">>

\* The previews argument of create_app_previews: absent or empty (previewDefs
\* is [] in both cases), one definition, two of which the second names its
\* palette.
PreviewDefs ==
    { <<>>,
      << [title |-> "T1", subtitle |-> "S1", paletteId |-> Undef] >>,
      << [title |-> "T1", subtitle |-> "S1", paletteId |-> Undef],
         [title |-> "T2", subtitle |-> "S2", paletteId |-> "coral"] >> }

CreateArgs ==
    [bundleId : {<<"com", "example", "app">>},
     appName : {"App"},
     platform : {"ios", "macos", "watchos"},
     language : {"en"},
     previews : PreviewDefs,
     simulatorUDID : {Undef, "UDID-A"}]

\* A previews argument of n definitions of which the third alone names its
\* palette, on a booted simulator or on the desktop.
PositionDefs(n) ==
    [i \in 1..n |-> [title |-> "T" \o ToString(i), subtitle |-> "S" \o ToString(i),
                     paletteId |-> IF i = 3 THEN "coral" ELSE Undef]]

PositionArgs(n) ==
    [bundleId : {<<"com", "example", "app">>},
     appName : {"App"},
     platform : {"ios", "macos"},
     language : {"en"},
     previews : {PositionDefs(n)},
     simulatorUDID : {Undef}]

\* What handleCreateAppPreviews leaves behind and returns.
CreateResult(file, sh, pending, last, t, body, cmds) ==
    [storeFile |-> file, shots |-> sh, pendingFile |-> pending, last |-> last,
     now |-> t, ret |-> Ran("create_app_previews", body, cmds)]

\* The body of the outer catch (lines 1714-1719).
CreateFailedBody == [success |-> FALSE, error |-> "Create app previews failed"]

\* The preview of definition i (lines 1575-1583, 1656-1664): its file name
\* has the timestamp of the turn (1571, 1651), its id and createdAt are drawn
\* at t, when it is pushed after the await of the capture (1577, 1658).
CreatePreview(def, i, deviceId, prefix, timestamp, t) ==
    [id |-> generateId(t),
     screenshotPath |-> ShotPath(prefix \o ToString(i), timestamp),
     title |-> def.title,
     subtitle |-> def.subtitle,
     deviceId |-> deviceId,
     paletteId |-> OrElse(def.paletteId, palettes[((i - 1) % Len(palettes)) + 1]),
     createdAt |-> toISOString(t)]

\* The tick at which turn i of a capture loop run alone draws the timestamp
\* of its file name: one tick for each turn before it and one for each
\* preview pushed before it, ok[j] telling whether turn j pushed one.
CreateTick(ok, i) == now + i + Cardinality({j \in 1..(i - 1) : ok[j]})

\* The clock after the first n turns.
CreateEnd(ok, n) == now + n + Cardinality({j \in 1..n : ok[j]})

\* The palette taken by the number of previews captured so far.
CreateCapturedByCount(defs, ok, n, deviceId, prefix) ==
    LET turns == SelectSeq([i \in 1..n |-> i], LAMBDA i : ok[i])
    IN  [k \in 1..Len(turns) |->
            [CreatePreview(defs[turns[k]], turns[k], deviceId, prefix,
                           CreateTick(ok, turns[k]), CreateTick(ok, turns[k]) + 1)
                EXCEPT !.paletteId = OrElse(defs[turns[k]].paletteId,
                                            palettes[((k - 1) % Len(palettes)) + 1])]]

\* The previews pushed by the first n turns of a capture loop, ok[i] telling
\* whether turn i captured its file.
CreateCaptured(defs, ok, n, deviceId, prefix) ==
    LET turns == SelectSeq([i \in 1..n |-> i], LAMBDA i : ok[i])
    IN  [k \in 1..Len(turns) |->
            CreatePreview(defs[turns[k]], turns[k], deviceId, prefix,
                          CreateTick(ok, turns[k]), CreateTick(ok, turns[k]) + 1)]

\* The files written by those turns, written[i] telling whether the capture
\* of turn i left its file.
CreateShots(written, ok, n, prefix) ==
    {ShotPath(prefix \o ToString(i), CreateTick(ok, i)) : i \in {j \in 1..n : written[j]}}

\* Step 5 (lines 1676-1713): the store is saved, the payload is written, the
\* rendering application is activated; when that fails the data directory is
\* opened, and a failure of that command is caught by the outer catch.
CreateHandoff(args, env, store, sh, last, t, capturedPreviews, cmds) ==
    LET pending == JsonFile([previews |-> store.previews])
        shown == [k \in 1..Len(capturedPreviews) |->
                    [title |-> capturedPreviews[k].title,
                     subtitle |-> capturedPreviews[k].subtitle,
                     paletteId |-> capturedPreviews[k].paletteId]]
    IN  IF env.activate = "ok"
        THEN CreateResult(saveStore(store), sh, pending, last, t,
                [success |-> TRUE, platform |-> args.platform, language |-> args.language,
                 previews |-> shown, appOpened |-> TRUE],
                cmds \o <<"open -b">>)
        ELSE IF env.reveal = "ok"
        THEN CreateResult(saveStore(store), sh, pending, last, t,
                [success |-> TRUE, platform |-> args.platform, language |-> args.language,
                 previews |-> shown, appOpened |-> FALSE],
                cmds \o <<"open -b", "open dataDir">>)
        ELSE CreateResult(saveStore(store), sh, pending, last, t, CreateFailedBody,
                cmds \o <<"open -b", "open dataDir">>)

\* The desktop capture (lines 1553-1590) on the store already emptied.
CreateOnDesktop(args, env, session, store, emptied) ==
    LET defs == args.previews
        ok == [i \in 1..Len(defs) |-> captureMacOSWindow(env.runs[i]).captured]
        captured == CreateCaptured(defs, ok, Len(defs), "mac_retina", "mac_")
        RECURSIVE windowCmds(_)
        windowCmds(i) == IF i > Len(defs) THEN <<>>
                         ELSE captureMacOSWindow(env.runs[i]).cmds \o windowCmds(i + 1)
    IN  IF env.open = "fails"
        THEN CreateResult(emptied, {}, pendingFile, session, now,
                [success |-> FALSE, error |-> "App not found: " \o BundleText(args.bundleId),
                 hint |-> "Make sure the macOS app is installed"],
                <<"open -b bundleId">>)
        ELSE CreateHandoff(args, env, [store EXCEPT !.previews = captured],
                CreateShots([i \in 1..Len(defs) |-> captureMacOSWindow(env.runs[i]).written],
                            ok, Len(defs), "mac_"), session,
                CreateEnd(ok, Len(defs)), captured, <<"open -b bundleId">> \o windowCmds(1))

\* The simulator capture from the terminate command on (lines 1617-1673), on
\* the target chosen; the screenshot command is in no try block but the outer
\* one, and a failure of it leaves the store as it was emptied.
CreateOnTarget(args, env, session, store, emptied, tracked, launched) ==
    LET defs == args.previews
        fails == {i \in 1..Len(defs) : env.shotsOut[i] = "fails"}
        n == IF fails = {} THEN Len(defs)
             ELSE CHOOSE i \in fails : \A j \in fails : i <= j
        ok == [i \in 1..Len(defs) |-> screenshotWritten(env.shotsOut[i])]
        captured == CreateCaptured(defs, ok, n, mapSimulatorToDeviceId(tracked.name), "ios_")
        cmds == launched \o [i \in 1..n |-> "screenshot"]
    IN  IF ~relaunch(env.terminate, env.launch).launched
        THEN CreateResult(emptied, {}, pendingFile, session, now,
                [success |-> FALSE, error |-> "Failed to launch app: launch failed",
                 hint |-> "Make sure the app is installed on the simulator"], launched)
        ELSE IF fails # {}
        THEN CreateResult(emptied, CreateShots(ok, ok, n, "ios_"), pendingFile,
                [udid |-> tracked.udid, name |-> tracked.name, bundleId |-> BundleText(args.bundleId)],
                CreateEnd(ok, n), CreateFailedBody, cmds)
        ELSE CreateHandoff(args, env, [store EXCEPT !.previews = captured],
                CreateShots(ok, ok, n, "ios_"),
                [udid |-> tracked.udid, name |-> tracked.name, bundleId |-> BundleText(args.bundleId)],
                CreateEnd(ok, n), captured, cmds)

\* The simulator path (lines 1591-1616): the query, the target.
CreateOnSimulators(args, env, session, store, emptied) ==
    IF ~env.list.ok
    THEN CreateResult(emptied, {}, pendingFile, session, now,
            CreateFailedBody, <<"list">>)
    ELSE IF Len(getBootedSimulators(env.list.entries)) = 0
    THEN CreateResult(emptied, {}, pendingFile, session, now,
            [success |-> FALSE, error |-> "No iOS Simulator is running",
             hint |-> "Please launch an iOS Simulator first"], <<"list">>)
    ELSE \* one reference of the target for the stage that follows
         CHOOSE e \in { CreateOnTarget(args, env, session, store, emptied, target.sim,
                            <<"list">> \o target.cmds
                            \o relaunch(env.terminate, env.launch).cmds) :
                        target \in {launchTarget(getBootedSimulators(env.list.entries),
                                                 args.simulatorUDID, env.installed)} } : TRUE

\* The request for marketing copy returned before anything is reset.
CreateAppPreviewsEffectAsksFirst(args, env, session) ==
    IF Len(args.previews) = 0
    THEN CreateResult(storeFile, shots, pendingFile, session, now,
            [success |-> FALSE, needsInput |-> TRUE,
             message |-> "Please provide preview titles and subtitles",
             appInfo |-> [name |-> args.appName, platform |-> args.platform,
                          language |-> args.language]], <<>>)
    ELSE IF env.left # {}
    THEN CreateResult(storeFile, env.left, pendingFile, session, now,
            CreateFailedBody, <<>>)
    ELSE IF loadStoreThrows(storeFile)
    THEN CreateResult(storeFile, {}, pendingFile, session, now,
            CreateFailedBody, <<>>)
    ELSE CHOOSE e \in
            { IF args.platform = "macos"
              THEN CreateOnDesktop(args, env, session, store, saveStore(store))
              ELSE CreateOnSimulators(args, env, session, store, saveStore(store)) :
              store \in {[loadStore(storeFile) EXCEPT !.previews = <<>>]} } : TRUE

\* handleCreateAppPreviews as a function of its arguments and of the outcomes
\* of what it runs.  env.left are the screenshots still there when unlinkSync
\* failed, none when it did not; `session` is lastLaunchedSimulator as the
\* call finds it.
CreateAppPreviewsEffect(args, env, session) ==
    IF env.left # {}
    THEN CreateResult(storeFile, env.left, pendingFile, session, now,
            CreateFailedBody, <<>>)
    ELSE IF loadStoreThrows(storeFile)
    THEN CreateResult(storeFile, {}, pendingFile, session, now,
            CreateFailedBody, <<>>)
    ELSE CHOOSE e \in
            { IF Len(args.previews) = 0
              THEN CreateResult(saveStore(store), {}, pendingFile, session, now,
                      [success |-> FALSE, needsInput |-> TRUE,
                       message |-> "Please provide preview titles and subtitles",
                       appInfo |-> [name |-> args.appName, platform |-> args.platform,
                                    language |-> args.language]], <<>>)
              ELSE IF args.platform = "macos"
              THEN CreateOnDesktop(args, env, session, store, saveStore(store))
              ELSE CreateOnSimulators(args, env, session, store, saveStore(store)) :
              store \in {[loadStore(storeFile) EXCEPT !.previews = <<>>]} } : TRUE

\* The window captures met by create_app_previews: by window id, by the
\* fallback, and a fallback that cannot activate the application.
WindowRuns ==
    {r \in MacCaptureRuns :
        \/ r.window = "id" /\ r.byId = "file"
        \/ r.window = "empty" /\ r.activate = "ok" /\ r.front = "file"
        \/ r.window = "empty" /\ r.activate = "fails"}

\* How the handoff of create_app_previews may end.
Handoffs ==
    {[activate |-> "ok", reveal |-> "ok"], [activate |-> "fails", reveal |-> "ok"],
     [activate |-> "fails", reveal |-> "fails"]}

\* The outcomes of what a call of handleCreateAppPreviews runs, those that
\* the call does not reach being left at one value.
CreateOutcomes(args) ==
    LET turns == 1..Len(args.previews)
        base == [left |-> {}, open |-> "ok", runs |-> <<>>, list |-> NothingBooted,
                 installed |-> {}, terminate |-> "ok", launch |-> "ok", shotsOut |-> <<>>,
                 activate |-> "ok", reveal |-> "ok"]
        end(env, h) == [env EXCEPT !.activate = h.activate, !.reveal = h.reveal]
    IN  {[base EXCEPT !.left = l] : l \in (SUBSET shots) \ {{}}}
        \cup
        (IF loadStoreThrows(storeFile) \/ Len(args.previews) = 0
         THEN {base}
         ELSE IF args.platform = "macos"
         THEN {[base EXCEPT !.open = "fails"]}
              \cup {end([base EXCEPT !.runs = r], h) :
                        r \in [turns -> WindowRuns], h \in Handoffs}
         ELSE {base, [base EXCEPT !.list = QueryFailed]}
              \cup {[base EXCEPT !.list = l, !.installed = inst, !.terminate = t,
                            !.launch = "fails"] :
                        l \in ListOutcomes \ {QueryFailed, NothingBooted},
                        inst \in InstalledSets, t \in CmdOutcomes}
              \cup UNION
                   { {end([base EXCEPT !.list = l, !.installed = inst, !.shotsOut = sh], h) :
                        h \in IF \E i \in turns : sh[i] = "fails"
                              THEN {[activate |-> "ok", reveal |-> "ok"]}
                              ELSE Handoffs} :
                     l \in ListOutcomes \ {QueryFailed, NothingBooted},
                     inst \in InstalledSets,
                     sh \in [turns -> ShotOutcomes] })

\* handleCreateAppPreviews as the dispatcher starts it on a request: the
\* reset (lines 1496-1506) deletes the screenshots, empties the store and
\* saves it; unlinkSync may fail after any of the files were deleted and
\* loadStore may throw, which the outer catch answers.  Without definitions
\* the handler asks for them (1529-1549); otherwise it runs to its first
\* await, where it stays suspended with the store it loaded: the open
\* command on "macos" (1558), the query of getBootedSimulators otherwise
\* (1595).
handleCreateAppPreviews(args) ==
    LET op == "create_app_previews" IN
    /\ UNCHANGED <<pendingFile, lastLaunchedSimulator, now>>
    /\ \/ /\ \E left \in (SUBSET shots) \ {{}} : shots' = left
          /\ ret' = Ran(op, CreateFailedBody, <<>>)
          /\ UNCHANGED <<storeFile, running>>
       \/ /\ shots' = {}
          /\ IF loadStoreThrows(storeFile)
             THEN /\ ret' = Ran(op, CreateFailedBody, <<>>)
                  /\ UNCHANGED <<storeFile, running>>
             ELSE LET store == [loadStore(storeFile) EXCEPT !.previews = <<>>]
                  IN  /\ storeFile' = saveStore(store)
                      /\ IF Len(args.previews) = 0
                         THEN /\ ret' = Ran(op,
                                    [success |-> FALSE, needsInput |-> TRUE,
                                     message |-> "Please provide preview titles and subtitles",
                                     appInfo |-> [name |-> args.appName,
                                                  platform |-> args.platform,
                                                  language |-> args.language]], <<>>)
                              /\ UNCHANGED running
                         ELSE /\ UNCHANGED ret
                              /\ running' = Append(running,
                                     [op |-> op,
                                      at |-> IF args.platform = "macos"
                                             THEN "open -b bundleId" ELSE "list",
                                      args |-> args,
                                      cmds |-> <<>>,
                                      store |-> store,
                                      capturedPreviews |-> <<>>,
                                      deviceId |-> CASE args.platform = "macos" -> "mac_retina"
                                                     [] args.platform = "watchos" -> "watch_45mm"
                                                     [] OTHER -> "iphone_6_7",
                                      i |-> 0,
                                      j |-> 0,
                                      timestamp |-> 0,
                                      screenshotPath |-> Undef,
                                      rejected |-> FALSE])

\* The suspended invocation k of handleCreateAppPreviews goes on from its
\* await to the next one, or to its return (lines 1556-1719):
\*   "open -b bundleId" the application is opened on the desktop, or the
\*                     handler answers (1559-1565);
\*   "sleep"           the wait before definition i ends (1567, 1590, 1646,
\*                     1671) and the timestamp of its file name is drawn
\*                     (1571, 1651);
\*   the awaits of captureMacOSWindow for definition i (1574);
\*   "list"            the query of 1595 returns or fails; the target is the
\*                     booted simulator of the udid given (1604-1606) or is
\*                     looked for;
\*   "get_app_container"
\*                     simulator j is asked (1611) and has the application or
\*                     not: it is the target, or the next one is asked, or
\*                     the first one is taken (1619);
\*   "terminate"       returns or fails, both caught (1623-1626);
\*   "launch"          fails and the handler answers (1630-1636), or returns:
\*                     lastLaunchedSimulator is set (1639-1643) and the
\*                     device identifier is the one of the simulator (1646);
\*   "screenshot"      the screenshot command of definition i runs (1654);
\*   "screenshot_done" a failure leaves through the outer catch; otherwise
\*                     the file is looked for (1655) and the preview pushed;
\*   after the last definition the store is saved (1676) and the payload is
\*                     written (1680);
\*   "open -b"         the rendering application is activated (1684) and the
\*                     handler answers, or
\*   "open dataDir"    the data directory is opened (1701), a failure of
\*                     which leaves through the outer catch.
ResumeCreateAppPreviews(k) ==
    /\ k \in 1..Len(running)
    /\ running[k].op = "create_app_previews"
    /\ UNCHANGED calls
    /\ \E r \in {running[k]} :
         LET op == "create_app_previews"
             args == r.args
             defs == r.args.previews
             answer(body, cmds) ==
                 /\ running' = Others(k)
                 /\ ret' = Ran(op, body, cmds)
             goOn(next) ==
                 /\ running' = [running EXCEPT ![k] = next]
                 /\ UNCHANGED ret
             onTarget(sim, cmds) ==
                 [Put(r, "targetSimulator", sim) EXCEPT !.at = "terminate", !.cmds = cmds]
             \* The end of turn i of a capture loop: the preview is pushed
             \* when the file is there, its id and createdAt drawn then; then
             \* the next turn, or the save and the payload.
             turnDone(captured, prefix, cmds) ==
                 LET preview == CreatePreview(defs[r.i], r.i, r.deviceId, prefix,
                                              r.timestamp, now + 1)
                     store == IF captured
                              THEN [r.store EXCEPT !.previews = Append(@, preview)]
                              ELSE r.store
                     capturedPreviews == IF captured
                                         THEN Append(r.capturedPreviews, preview)
                                         ELSE r.capturedPreviews
                 IN  /\ now' = IF captured THEN now + 1 ELSE now
                     /\ IF r.i < Len(defs)
                        THEN /\ goOn([r EXCEPT !.at = "sleep",
                                               !.cmds = cmds,
                                               !.store = store,
                                               !.capturedPreviews = capturedPreviews,
                                               !.i = @ + 1])
                             /\ UNCHANGED <<storeFile, pendingFile>>
                        ELSE /\ storeFile' = saveStore(store)
                             /\ pendingFile' = JsonFile([previews |-> store.previews])
                             /\ goOn([r EXCEPT !.at = "open -b",
                                               !.cmds = cmds,
                                               !.store = store,
                                               !.capturedPreviews = capturedPreviews])
         IN
         CASE r.at = "open -b bundleId" ->
                /\ UNCHANGED <<storeFile, shots, pendingFile, lastLaunchedSimulator, now>>
                /\ \E open \in CmdOutcomes :
                     IF open = "fails"
                     THEN answer([success |-> FALSE,
                                  error |-> "App not found: " \o BundleText(args.bundleId),
                                  hint |-> "Make sure the macOS app is installed"],
                                 <<"open -b bundleId">>)
                     ELSE goOn([r EXCEPT !.at = "sleep",
                                         !.cmds = <<"open -b bundleId">>,
                                         !.i = 1])
           [] r.at = "sleep" ->
                /\ now < MaxClock
                /\ now' = now + 1
                /\ UNCHANGED <<storeFile, shots, pendingFile, lastLaunchedSimulator>>
                /\ goOn([r EXCEPT !.at = IF args.platform = "macos" THEN "osascript id"
                                         ELSE "screenshot",
                                  !.timestamp = now + 1,
                                  !.screenshotPath =
                                      ShotPath((IF args.platform = "macos"
                                                THEN "mac_" ELSE "ios_")
                                               \o ToString(r.i), now + 1)])
           [] r.at \in {"osascript id", "screencapture -l", "screencapture -l_done",
                        "osascript activate", "screencapture -w",
                        "screencapture -w_done"} ->
                /\ UNCHANGED lastLaunchedSimulator
                /\ \E m \in captureMacOSWindowStep(r.at, r.rejected, r.screenshotPath) :
                     /\ shots' = IF m.wrote THEN shots \cup {r.screenshotPath} ELSE shots
                     /\ IF ~m.done
                        THEN /\ goOn([r EXCEPT !.at = m.at, !.cmds = @ \o m.cmds,
                                               !.rejected = m.rejected])
                             /\ UNCHANGED <<storeFile, pendingFile, now>>
                        ELSE turnDone(m.captured, "mac_", r.cmds \o m.cmds)
           [] r.at = "list" ->
                /\ UNCHANGED <<storeFile, shots, pendingFile, lastLaunchedSimulator, now>>
                /\ \E list \in ListOutcomes :
                     IF ~list.ok
                     THEN answer(CreateFailedBody, <<"list">>)
                     ELSE LET bootedSimulators == getBootedSimulators(list.entries)
                              byUdid == IF Truthy(args.simulatorUDID)
                                        THEN findByUdid(bootedSimulators, args.simulatorUDID)
                                        ELSE [found |-> FALSE]
                          IN  IF Len(bootedSimulators) = 0
                              THEN answer([success |-> FALSE,
                                           error |-> "No iOS Simulator is running",
                                           hint |-> "Please launch an iOS Simulator first"],
                                          <<"list">>)
                              ELSE IF byUdid.found
                              THEN goOn(onTarget(byUdid.sim, <<"list">>))
                              ELSE goOn([Put(r, "bootedSimulators", bootedSimulators)
                                            EXCEPT !.at = "get_app_container",
                                                   !.cmds = <<"list">>,
                                                   !.j = 1])
           [] r.at = "get_app_container" ->
                /\ UNCHANGED <<storeFile, shots, pendingFile, lastLaunchedSimulator, now>>
                /\ \E installed \in InstalledSets :
                     IF r.bootedSimulators[r.j].udid \in installed
                     THEN goOn(onTarget(r.bootedSimulators[r.j],
                                        Append(r.cmds, "get_app_container")))
                     ELSE IF r.j < Len(r.bootedSimulators)
                     THEN goOn([r EXCEPT !.j = @ + 1,
                                         !.cmds = Append(@, "get_app_container")])
                     ELSE goOn(onTarget(r.bootedSimulators[1],
                                        Append(r.cmds, "get_app_container")))
           [] r.at = "terminate" ->
                /\ UNCHANGED <<storeFile, shots, pendingFile, lastLaunchedSimulator, now>>
                /\ \E terminate \in CmdOutcomes :
                     goOn([r EXCEPT !.at = "launch", !.cmds = Append(@, "terminate")])
           [] r.at = "launch" ->
                /\ UNCHANGED <<storeFile, shots, pendingFile, now>>
                /\ \E launch \in CmdOutcomes :
                     IF launch = "fails"
                     THEN /\ answer([success |-> FALSE,
                                     error |-> "Failed to launch app: launch failed",
                                     hint |-> "Make sure the app is installed on the simulator"],
                                    Append(r.cmds, "launch"))
                          /\ UNCHANGED lastLaunchedSimulator
                     ELSE /\ lastLaunchedSimulator' =
                                [udid |-> r.targetSimulator.udid,
                                 name |-> r.targetSimulator.name,
                                 bundleId |-> BundleText(args.bundleId)]
                          /\ goOn([r EXCEPT !.at = "sleep",
                                            !.cmds = Append(@, "launch"),
                                            !.deviceId =
                                                mapSimulatorToDeviceId(r.targetSimulator.name),
                                            !.i = 1])
           [] r.at = "screenshot" ->
                /\ UNCHANGED <<storeFile, pendingFile, lastLaunchedSimulator, now>>
                /\ \E shot \in ShotOutcomes :
                     /\ shots' = IF shot = "file" THEN shots \cup {r.screenshotPath}
                                 ELSE shots
                     /\ goOn([r EXCEPT !.at = "screenshot_done",
                                       !.cmds = Append(@, "screenshot"),
                                       !.rejected = (shot = "fails")])
           [] r.at = "screenshot_done" ->
                /\ UNCHANGED <<shots, lastLaunchedSimulator>>
                /\ IF r.rejected
                   THEN /\ answer(CreateFailedBody, r.cmds)
                        /\ UNCHANGED <<storeFile, pendingFile, now>>
                   ELSE turnDone(existsSync(r.screenshotPath), "ios_", r.cmds)
           [] r.at = "open -b" ->
                /\ UNCHANGED <<storeFile, shots, pendingFile, lastLaunchedSimulator, now>>
                /\ \E activate \in CmdOutcomes :
                     IF activate = "ok"
                     THEN /\ running' = Others(k)
                          /\ ret' = CreateHandoff(args, [activate |-> "ok", reveal |-> "ok"],
                                        r.store, shots, lastLaunchedSimulator, now,
                                        r.capturedPreviews, r.cmds).ret
                     ELSE goOn([r EXCEPT !.at = "open dataDir"])
           [] r.at = "open dataDir" ->
                /\ UNCHANGED <<storeFile, shots, pendingFile, lastLaunchedSimulator, now>>
                /\ \E reveal \in CmdOutcomes :
                     /\ running' = Others(k)
                     /\ ret' = CreateHandoff(args, [activate |-> "fails", reveal |-> reveal],
                                   r.store, shots, lastLaunchedSimulator, now,
                                   r.capturedPreviews, r.cmds).ret

\* saveStore(store) followed by loadStore().
SaveThenLoad(store) ==
    /\ storeFile' = saveStore(store)
    /\ ret' = Returned("saveStore", [saved |-> store, loaded |-> loadStore(storeFile')])
    /\ UNCHANGED <<shots, pendingFile, lastLaunchedSimulator, now, calls, running>>

\* loadStore() on the file as it is.
LoadOnly ==
    /\ ~loadStoreThrows(storeFile)
    /\ ret' = Returned("loadStore", [loaded |-> loadStore(storeFile)])
    /\ UNCHANGED <<storeFile, shots, pendingFile, lastLaunchedSimulator, now, calls, running>>

\* mapSimulatorToDeviceId(name)
MapName(name) ==
    /\ ret' = Returned("mapSimulatorToDeviceId",
                [name |-> name, deviceId |-> mapSimulatorToDeviceId(name)])
    /\ UNCHANGED <<storeFile, shots, pendingFile, lastLaunchedSimulator, now, calls, running>>

\* getBootedSimulators on a listing, then the choice of the target as
\* handleCaptureSimulator makes it (lines 889-913).
SelectTarget(entries, simulatorUDID) ==
    LET bootedSimulators == getBootedSimulators(entries)
    IN  /\ ret' = Returned("getBootedSimulators",
                    [entries |-> entries,
                     simulatorUDID |-> simulatorUDID,
                     bootedSimulators |-> bootedSimulators,
                     target |-> IF Len(bootedSimulators) = 0
                                THEN [found |-> FALSE]
                                ELSE resolveTarget(bootedSimulators, simulatorUDID)])
        /\ UNCHANGED <<storeFile, shots, pendingFile, lastLaunchedSimulator, now, calls, running>>

\* captureMacOSWindow(bundleId, outputPath) on one run of its commands.
CaptureWindow(run) ==
    /\ ret' = Returned("captureMacOSWindow",
                [run |-> run, result |-> captureMacOSWindow(run)])
    /\ UNCHANGED <<storeFile, shots, pendingFile, lastLaunchedSimulator, now, calls, running>>

\* detectPlatform(bundleId) under the outcomes of mdfind, of the simctl query
\* and of the get_app_container commands.
DetectPlatform(mdfind, detectList, installed) ==
    /\ ret' = Returned("detectPlatform",
                [mdfind |-> mdfind, detectList |-> detectList, installed |-> installed,
                 detected |-> detectPlatform(mdfind, detectList, installed)])
    /\ UNCHANGED <<storeFile, shots, pendingFile, lastLaunchedSimulator, now, calls, running>>

\* One tool call through the CallToolRequestSchema handler, of a handler
\* that runs to its return without an await on which the state depends.
Call(handler) ==
    /\ calls < MaxCalls
    /\ calls' = calls + 1
    /\ UNCHANGED running
    /\ handler

\* One tool call through the CallToolRequestSchema handler, of a handler
\* that may stay suspended at an await: the dispatcher goes on with the
\* next request meanwhile.
Start(handler) ==
    /\ calls < MaxCalls
    /\ calls' = calls + 1
    /\ handler

\* A request for capture_app_screens that the clock lets run to its end.
StartCaptureAppScreens(args) ==
    /\ TurnsLeft(running) + 2 * Len(args.screens) <= MaxClock - now
    /\ Start(handleCaptureAppScreens(args))

\* The handlers suspended at an await go on.
ContinueCaptureAppScreens == \E k \in 1..Len(running) : ResumeCaptureAppScreens(k)
ContinueHandoff == \E k \in 1..Len(running) : ResumeHandoff(k)
ContinueCaptureSimulator == \E k \in 1..Len(running) : ResumeCaptureSimulator(k)
ContinueListSimulators == \E k \in 1..Len(running) : ResumeListSimulators(k)
ContinueLaunchAndCapture == \E k \in 1..Len(running) : ResumeLaunchAndCapture(k)
ContinueCreateAppPreviews == \E k \in 1..Len(running) : ResumeCreateAppPreviews(k)

\* No handler is suspended: the client has the answer to every request it
\* sent.
Idle == running = <<>>

CallAddPreview ==
    \E a \in AddArgs :
        /\ Idle \/ TurnsLeft(running) + 1 <= MaxClock - now
        /\ Call(handleAddPreview(a))
CallCaptureSimulator ==
    \E a \in CaptureSimulatorArgs :
        /\ TurnsLeft(running) + 2 <= MaxClock - now
        /\ Start(handleCaptureSimulator(a))
CallListPreviews == Call(handleListPreviews)
CallListSimulators == Start(handleListSimulators)
CallCreateAppPreviews ==
    \E a \in CreateArgs :
        /\ TurnsLeft(running) + 2 * Len(a.previews) <= MaxClock - now
        /\ Start(handleCreateAppPreviews(a))
CallRemovePreview == \E a \in [id : Ids] : Call(handleRemovePreview(a))
CallUpdatePreview == \E a \in UpdateArgs : Call(handleUpdatePreview(a))
CallClearAll == \E a \in ConfirmArgs : Call(handleClearAll(a))
CallGetSettings == Call(handleGetSettings)
CallUpdateSettings == \E a \in SettingsArgs : Call(handleUpdateSettings(a))
CallUnknownTool == \E name \in UnknownToolNames : Call(UnknownTool(name))
CallLaunchAndCapture ==
    \E a \in LaunchArgs :
        /\ TurnsLeft(running) + 2 <= MaxClock - now
        /\ Start(handleLaunchAndCapture(a))
CallCaptureAppScreens == \E a \in CaptureScreensArgs : StartCaptureAppScreens(a)
CallResetAll == \E a \in ConfirmArgs : Call(handleResetAll(a))
CallOpenApp == Start(handleOpenApp)
CallGeneratePreviews == \E a \in GenerateArgs : Start(handleGeneratePreviews(a))
CallCreateByPosition ==
    \E n \in 1..(MaxClock \div 2) :
        \E a \in PositionArgs(n) : Start(handleCreateAppPreviews(a))

\* The preview collection: add, list, remove, update, clear.
NextStore ==
    \/ CallAddPreview
    \/ CallListPreviews
    \/ CallRemovePreview
    \/ CallUpdatePreview
    \/ CallClearAll

SpecStore == Init /\ [][NextStore]_vars

\* The settings and the defaults they give to new previews.
NextSettings ==
    \/ CallUpdateSettings
    \/ CallGetSettings
    \/ CallAddPreview
    \/ CallListPreviews

SpecSettings == Init /\ [][NextSettings]_vars

\* The files: multi-screen capture, the handoffs, clear and reset, for a
\* client that sends a request when it has the answer to the one before.
NextFiles ==
    \/ Idle /\ calls < MaxFileCalls /\ CallCaptureAppScreens
    \/ Idle /\ calls < MaxFileCalls /\ CallOpenApp
    \/ Idle /\ calls < MaxFileCalls /\ CallGeneratePreviews
    \/ Idle /\ calls < MaxFileCalls /\ CallClearAll
    \/ Idle /\ calls < MaxFileCalls /\ CallResetAll
    \/ ContinueCaptureAppScreens
    \/ ContinueHandoff

SpecFiles == Init /\ [][NextFiles]_vars

\* The handoffs to the rendering application, next to the tool that fills
\* the store from a file of the user, for a client that sends a request when
\* it has the answer to the one before.
NextHandoff ==
    \/ Idle /\ calls < MaxDispatchCalls /\ CallAddPreview
    \/ Idle /\ calls < MaxDispatchCalls /\ CallOpenApp
    \/ Idle /\ calls < MaxDispatchCalls /\ CallGeneratePreviews
    \/ Idle /\ calls < MaxDispatchCalls /\ CallCreateAppPreviews
    \/ ContinueHandoff
    \/ ContinueCreateAppPreviews

SpecHandoff == Init /\ [][NextHandoff]_vars

\* Multi-screen captures one after the other.
NextScreens ==
    \/ Idle /\ calls < MaxFileCalls /\ CallCaptureAppScreens
    \/ ContinueCaptureAppScreens

SpecScreens == Init /\ [][NextScreens]_vars

\* The destructive tools next to what they would destroy: a captured
\* screenshot and its preview, the handoff payload.
NextConfirm ==
    \/ Idle /\ CallCaptureSimulator
    \/ Idle /\ CallOpenApp
    \/ Idle /\ CallClearAll
    \/ Idle /\ CallResetAll
    \/ ContinueHandoff
    \/ ContinueCaptureSimulator

SpecConfirm == Init /\ [][NextConfirm]_vars

\* saveStore and loadStore on their own.
NextRoundTrip ==
    \/ \E store \in StoreValues : SaveThenLoad(store)
    \/ LoadOnly

SpecRoundTrip == Init /\ [][NextRoundTrip]_vars

\* The store files loadStore may find at STORE_PATH: JSON documents of this
\* or another version of the server, or edited by hand, in which any of the
\* settings may be absent.
DocsOnDisk ==
    { [previews |-> p, settings |-> StringifyObject(st)] :
        p \in { <<>>, << SamplePreview(1, "/u/a.png") >> },
        st \in [defaultDeviceType : {Undef, "iphone_6_7", "ipad_11"},
                defaultPaletteId : {Undef, "ocean", "sunset"},
                outputDirectory : {Undef, "~/Desktop/Previews", "/tmp/x"},
                language : {Undef, "ko", "en", ""}] }

InitLoad ==
    /\ storeFile \in {Absent} \cup {JsonFile(doc) : doc \in DocsOnDisk}
    /\ shots = {}
    /\ pendingFile = Absent
    /\ lastLaunchedSimulator = Null
    /\ now = 0
    /\ calls = 0
    /\ running = <<>>
    /\ ret = [op |-> "none", outcome |-> "returned", body |-> [success |-> TRUE],
              cmds |-> <<>>, after |-> "none"]

\* loadStore on its own, applied once to the file found.
NextLoad == ret.op = "none" /\ LoadOnly

SpecLoad == InitLoad /\ [][NextLoad]_vars

\* mapSimulatorToDeviceId on its own, applied to one name in a run.
NextMap == ret.op = "none" /\ \E name \in Names : MapName(name)

SpecMap == Init /\ [][NextMap]_vars

\* The simulators: the target selection applied to one listing in a run, and
\* capture_simulator.
NextSimulator ==
    \/ ret.op = "none" /\ \E entries \in Listings, udid \in OptUdids : SelectTarget(entries, udid)
    \/ Idle /\ CallCaptureSimulator
    \/ ContinueCaptureSimulator

SpecSimulator == Init /\ [][NextSimulator]_vars

\* capture_simulator on its own, one call after the other.
NextCapture ==
    \/ Idle /\ CallCaptureSimulator
    \/ ContinueCaptureSimulator

SpecCapture == Init /\ [][NextCapture]_vars

\* list_simulators and capture_simulator, one call after the other.
NextListing ==
    \/ Idle /\ CallListSimulators
    \/ Idle /\ CallCaptureSimulator
    \/ ContinueListSimulators
    \/ ContinueCaptureSimulator

SpecListing == Init /\ [][NextListing]_vars

\* launch_and_capture on its own, one call after the other.
NextLaunch ==
    \/ Idle /\ calls < MaxLaunchCalls /\ CallLaunchAndCapture
    \/ ContinueLaunchAndCapture

SpecLaunch == Init /\ [][NextLaunch]_vars

\* create_app_previews called once with as many definitions as the clock
\* lets it capture, two ticks each.
NextPalette ==
    \/ calls = 0 /\ CallCreateByPosition
    \/ ContinueCreateAppPreviews

SpecPalette == Init /\ [][NextPalette]_vars

\* getBootedSimulators on listings of up to MaxRuntimes runtimes of different
\* families, each with a booted device, a shut-down one, or the two.
Families == {"iOS", "watchOS", "tvOS", "xrOS", "visionOS"}

FamilyDevice(family, n, state) ==
    Device(CASE family = "iOS"     -> IF n = 1 THEN <<"iPhone", "15">> ELSE <<"iPad", "Air">>
             [] family = "watchOS" -> <<"Apple", "Watch">>
             [] family = "tvOS"    -> <<"Apple", "TV">>
             [] OTHER              -> <<"Apple", "Vision", "Pro">>,
           "UDID-" \o family \o "-" \o ToString(n), state)

FamilyEntries ==
    UNION {{[runtime |-> [family |-> f, version |-> <<17, 2>>], devices |-> devs] :
                devs \in {<<FamilyDevice(f, 1, "Booted")>>,
                          <<FamilyDevice(f, 1, "Shutdown")>>,
                          <<FamilyDevice(f, 1, "Shutdown"), FamilyDevice(f, 2, "Booted")>>}} :
            f \in Families}

FamilyListings ==
    {l \in UNION {[1..k -> FamilyEntries] : k \in 0..MaxRuntimes} :
        \A i, j \in 1..Len(l) : i # j => l[i].runtime.family # l[j].runtime.family}

NextFamilies ==
    ret.op = "none" /\ \E entries \in FamilyListings : SelectTarget(entries, Undef)

SpecFamilies == Init /\ [][NextFamilies]_vars

\* mapSimulatorToDeviceId on the names of up to MaxNameLen + 1 words that
\* the rules of the phones of generations 14 and 15 and of the tablets tell
\* apart.
RuleWords == {"iPhone", "iPad", "14", "15", "Pro", "Max", "Air"}

RuleNames == UNION {[1..k -> RuleWords] : k \in 0..(MaxNameLen + 1)}

NextRules == ret.op = "none" /\ \E name \in RuleNames : MapName(name)

SpecRules == Init /\ [][NextRules]_vars

\* The capture of a desktop window: captureMacOSWindow on its own, and
\* launch_and_capture called once.
NextWindow ==
    \/ calls = 0 /\ ret.op = "none" /\ \E run \in MacCaptureRuns : CaptureWindow(run)
    \/ ret.op = "none" /\ Idle /\ CallLaunchAndCapture
    \/ ContinueLaunchAndCapture

SpecWindow == Init /\ [][NextWindow]_vars

\* detectPlatform applied once: mdfind finds the application, finds nothing
\* or fails; the query fails or gives a listing; the application is on any of
\* a booted phone, a booted tablet and a booted watch.
DetectListings == ListOutcomes \cup {[ok |-> TRUE, entries |-> e] : e \in Listings}

DetectInstalled == SUBSET {"UDID-A", "UDID-B", "UDID-W"}

NextDetect ==
    ret.op = "none"
    /\ \E mdfind \in MdfindOutcomes, detectList \in DetectListings,
          installed \in DetectInstalled :
            DetectPlatform(mdfind, detectList, installed)

SpecDetect == Init /\ [][NextDetect]_vars

\* The two tools that write lastLaunchedSimulator: launch_and_capture on the
\* initial store, then one call of either.
FirstLaunchDone == ret.op = "launch_and_capture" /\ ret.after = "none"

NextSession ==
    \/ ret.op = "none" /\ Idle /\ CallLaunchAndCapture
    \/ FirstLaunchDone /\ Idle /\ CallLaunchAndCapture
    \/ FirstLaunchDone /\ Idle /\ CallCreateAppPreviews
    \/ ContinueLaunchAndCapture
    \/ ContinueCreateAppPreviews

SpecSession == Init /\ [][NextSession]_vars

\* The two tools that terminate and launch the application on a simulator
\* before they capture from it, each called once on the initial store.
NextRelaunch ==
    \/ calls = 0 /\ CallLaunchAndCapture
    \/ calls = 0 /\ CallCaptureAppScreens
    \/ ContinueCaptureAppScreens
    \/ ContinueLaunchAndCapture

SpecRelaunch == Init /\ [][NextRelaunch]_vars

\* Requests as the dispatcher takes them: each one starts its handler when
\* it arrives, also while an earlier capture_app_screens is suspended at an
\* await; add_preview and list_previews have no await and run to their end.
NextConcurrent ==
    \/ calls < MaxFileCalls /\ CallCaptureAppScreens
    \/ ContinueCaptureAppScreens
    \/ calls < MaxFileCalls /\ CallAddPreview
    \/ calls < MaxFileCalls /\ CallListPreviews

SpecConcurrent == Init /\ [][NextConcurrent]_vars

\* capture_app_screens requests and list_previews requests as the dispatcher
\* takes them, every screenshot command and every wait coming to its end.
\* The requests name no simulator: the target is the best booted one.
NextProgress ==
    \/ /\ calls < MaxDispatchCalls
       /\ \E a \in CaptureScreensArgs :
            a.simulatorUDID = Undef /\ StartCaptureAppScreens(a)
    \/ ContinueCaptureAppScreens
    \/ calls < MaxDispatchCalls /\ CallListPreviews

SpecProgress ==
    /\ Init
    /\ [][NextProgress]_vars
    /\ WF_vars(ContinueCaptureAppScreens)

\* The defaults of the settings and the previews that took them.
NextDefaults ==
    \/ CallAddPreview
    \/ CallUpdateSettings
    \/ CallUpdatePreview
    \/ CallRemovePreview
    \/ CallClearAll

SpecDefaults == Init /\ [][NextDefaults]_vars

\* The dispatcher: every tool, and a name that is none of them, for a client
\* that sends a request when it has the answer to the one before.
NextDispatch ==
    \/ ContinueCaptureAppScreens
    \/ ContinueHandoff
    \/ ContinueCaptureSimulator
    \/ ContinueListSimulators
    \/ ContinueLaunchAndCapture
    \/ ContinueCreateAppPreviews
    \/ /\ Idle
       /\ calls < MaxDispatchCalls
       /\ \/ CallAddPreview
          \/ CallListPreviews
          \/ CallRemovePreview
          \/ CallUpdatePreview
          \/ CallClearAll
          \/ CallOpenApp
          \/ CallGeneratePreviews
          \/ CallGetSettings
          \/ CallUpdateSettings
          \/ CallResetAll
          \/ CallCaptureSimulator
          \/ CallListSimulators
          \/ CallCaptureAppScreens
          \/ CallLaunchAndCapture
          \/ CallCreateAppPreviews
          \/ CallUnknownTool

SpecDispatch == Init /\ [][NextDispatch]_vars

\* Every tool of the server, as the dispatcher takes the requests: each one
\* starts its handler when it arrives, also while an earlier one is suspended.
Next ==
    \/ ContinueCaptureAppScreens
    \/ ContinueHandoff
    \/ ContinueCaptureSimulator
    \/ ContinueListSimulators
    \/ ContinueLaunchAndCapture
    \/ ContinueCreateAppPreviews
    \/ CallAddPreview
    \/ CallListPreviews
    \/ CallRemovePreview
    \/ CallUpdatePreview
    \/ CallClearAll
    \/ CallOpenApp
    \/ CallGeneratePreviews
    \/ CallGetSettings
    \/ CallUpdateSettings
    \/ CallResetAll
    \/ CallCaptureSimulator
    \/ CallListSimulators
    \/ CallCaptureAppScreens
    \/ CallLaunchAndCapture
    \/ CallCreateAppPreviews

Spec == Init /\ [][Next]_vars

-----------------------------------------------------------------------------
(* What the claims speak about *)

\* The previews a store file holds (none when there is no parseable file).
PreviewsOf(file) == IF file.kind = "json" THEN file.doc.previews ELSE <<>>

IdsOf(previews) == [i \in 1..Len(previews) |-> previews[i].id]

\* s without its element at position i
Without(s, i) == SubSeq(s, 1, i - 1) \o SubSeq(s, i + 1, Len(s))

\* The last call returned a JSON text with success: true / success: false.
Succeeded(r, op) == r.op = op /\ r.outcome = "returned" /\ r.body.success = TRUE
Failed(r, op) == r.op = op /\ r.outcome = "returned" /\ r.body.success = FALSE

\* A step in which a handler gives its answer: a handler that was suspended
\* leaves, or a request is taken and answered in the same step.
Answers ==
    \/ Len(running') < Len(running)
    \/ calls' = calls + 1 /\ Len(running') = Len(running)

\* The elements of a sequence.
Range(s) == {s[i] : i \in 1..Len(s)}

-----------------------------------------------------------------------------
(* C1: every successful add_preview appends its record at the end of the    *)
(* persisted previews, every successful remove_preview deletes exactly the  *)
(* record with the addressed id and keeps the order of the others, and      *)
(* update_preview leaves the sequence of ids as it was: so the persisted    *)
(* order is the order of adding minus the removed ids.                      *)
C1_OrderKept ==
    [][ /\ \A a \in AddArgs :
              (Succeeded(ret', "add_preview") /\ Call(handleAddPreview(a)))
              => /\ PreviewsOf(storeFile') = Append(PreviewsOf(storeFile), ret'.body.preview)
                 /\ \A i \in 1..Len(PreviewsOf(storeFile)) :
                        PreviewsOf(storeFile)[i].id # ret'.body.preview.id
        /\ \A a \in [id : Ids] :
              (Succeeded(ret', "remove_preview") /\ Call(handleRemovePreview(a)))
              => \E i \in 1..Len(PreviewsOf(storeFile)) :
                    /\ PreviewsOf(storeFile)[i].id = a.id
                    /\ ret'.body.removed = PreviewsOf(storeFile)[i]
                    /\ PreviewsOf(storeFile') = Without(PreviewsOf(storeFile), i)
        /\ (calls' = calls + 1 /\ ret'.op = "update_preview")
              => IdsOf(PreviewsOf(storeFile')) = IdsOf(PreviewsOf(storeFile))
      ]_vars

\* Two records were added, the first was updated and then removed: the second stays.
C1_Witness ==
    /\ Succeeded(ret, "remove_preview")
    /\ ret.body.removed.id = generateId(1)
    /\ ret.body.removed.title = "T2"
    /\ IdsOf(PreviewsOf(storeFile)) = <<generateId(2)>>

-----------------------------------------------------------------------------
(* C4: add_preview with a screenshotPath that does not exist returns        *)
(* success: false with the not-found error and leaves the store file as it  *)
(* was.                                                                     *)
C4_AddMissingFile ==
    [][ \A a \in AddArgs :
            (/\ ret'.op = "add_preview"
             /\ ~(a.screenshotPath \in UserFiles \/ a.screenshotPath \in shots)
             /\ Call(handleAddPreview(a)))
            => /\ ret'.outcome = "returned"
               /\ ret'.body = [success |-> FALSE, error |-> "Screenshot not found"]
               /\ storeFile' = storeFile
      ]_vars

\* The call failed on a store that already holds a preview.
C4_Witness ==
    /\ Failed(ret, "add_preview")
    /\ ret.body.error = "Screenshot not found"
    /\ Len(PreviewsOf(storeFile)) > 0

-----------------------------------------------------------------------------
(* C7: after a successful update_preview every supplied field of the        *)
(* addressed record has the supplied value, every field not supplied, the   *)
(* id and createdAt are as before, and every other record is as before.     *)
UpdatableFields == {"title", "subtitle", "screenshotPath", "deviceId", "paletteId"}

C7_UpdateFrame ==
    [][ \A a \in UpdateArgs :
            (Succeeded(ret', "update_preview") /\ Call(handleUpdatePreview(a)))
            => LET old == PreviewsOf(storeFile)
                   new == PreviewsOf(storeFile')
               IN  /\ Len(new) = Len(old)
                   /\ \A i \in 1..Len(old) :
                        IF old[i].id = a.id
                        THEN /\ \A f \in UpdatableFields :
                                    new[i][f] = IF a[f] # Undef THEN a[f] ELSE old[i][f]
                             /\ new[i].id = old[i].id
                             /\ new[i].createdAt = old[i].createdAt
                        ELSE new[i] = old[i]
      ]_vars

-----------------------------------------------------------------------------
(* C8: on a store that can be read, remove_preview and update_preview with  *)
(* an id that no persisted preview has return success: false with the       *)
(* not-found error, do not throw, and leave the store file as it was.       *)
C8_UnknownId ==
    [][ \A a \in [id : Ids] :
            (/\ ret'.op = "remove_preview"
             /\ storeFile.kind # "corrupt"
             /\ \A i \in 1..Len(PreviewsOf(storeFile)) : PreviewsOf(storeFile)[i].id # a.id
             /\ Call(handleRemovePreview(a)))
            => /\ ret'.outcome = "returned"
               /\ ret'.body = [success |-> FALSE, error |-> "Preview not found"]
               /\ storeFile' = storeFile
      ]_vars
    /\ [](\A a \in UpdateArgs :
            (/\ storeFile.kind # "corrupt"
             /\ \A i \in 1..Len(PreviewsOf(storeFile)) : PreviewsOf(storeFile)[i].id # a.id)
            => /\ UpdatePreviewEffect(a).ret.outcome = "returned"
               /\ UpdatePreviewEffect(a).ret.body = [success |-> FALSE, error |-> "Preview not found"]
               /\ UpdatePreviewEffect(a).storeFile = storeFile)

\* A removed id is addressed again while another preview is still stored.
C8_Witness ==
    /\ ret.op \in {"remove_preview", "update_preview"}
    /\ ret.outcome = "returned"
    /\ ret.body = [success |-> FALSE, error |-> "Preview not found"]
    /\ ret.after = "remove_preview"
    /\ Len(PreviewsOf(storeFile)) > 0

-----------------------------------------------------------------------------
(* C10: on a store that can be read, clear_all with confirm: true returns   *)
(* success: true, leaves no persisted preview and leaves the settings that  *)
(* loadStore gives as they were; it does so again when called a second time *)
(* in a row.                                                                *)
C10_ClearIdempotent ==
    [][ (/\ ret'.op = "clear_all"
         /\ storeFile.kind # "corrupt"
         /\ Call(handleClearAll([confirm |-> TRUE])))
        => /\ Succeeded(ret', "clear_all")
           /\ storeFile'.kind = "json"
           /\ PreviewsOf(storeFile') = <<>>
           /\ loadStore(storeFile').settings = loadStore(storeFile).settings
           /\ (Succeeded(ret, "clear_all") => storeFile' = storeFile)
      ]_vars

\* The second of two successful clear_all calls in a row, after previews were added.
C10_Witness ==
    /\ Succeeded(ret, "clear_all")
    /\ ret.after = "clear_all"
    /\ ret.body.cleared = 0
    /\ now > 0
    /\ PreviewsOf(storeFile) = <<>>

-----------------------------------------------------------------------------
(* C9: after update_settings, get_settings returns the supplied value for   *)
(* every field supplied and the value it returned before the call for every *)
(* field not supplied, and the previews are as before.                      *)
SettingsFields == {"defaultDeviceType", "defaultPaletteId", "outputDirectory", "language"}

C9_SettingsFrame ==
    [][ \A a \in SettingsArgs :
            (/\ ret'.op = "update_settings"
             /\ storeFile.kind # "corrupt"
             /\ Call(handleUpdateSettings(a)))
            => /\ \A f \in SettingsFields :
                    loadStore(storeFile').settings[f] =
                        IF a[f] # Undef THEN a[f] ELSE loadStore(storeFile).settings[f]
               /\ PreviewsOf(storeFile') = PreviewsOf(storeFile)
      ]_vars

-----------------------------------------------------------------------------
(* C2: in capture_app_screens a screenshot command that fails on one screen *)
(* skips only that screen: every screen of the list is tried and every file *)
(* the call wrote is the screenshotPath of a persisted preview.             *)
C2_SkipAndContinue ==
    [][ \A k \in 1..Len(running) :
            (/\ running[k].op = "capture_app_screens"
             /\ running[k].at = "screenshot_done"
             /\ running' = Others(k))
            => /\ Len(SelectSeq(ret'.cmds, LAMBDA c : c = "screenshot"))
                    = Len(running[k].args.screens)
               /\ \A p \in Range(running[k].capturedPreviews) :
                    \E i \in 1..Len(PreviewsOf(storeFile')) :
                        PreviewsOf(storeFile')[i].screenshotPath = p.screenshotPath
      ]_vars

-----------------------------------------------------------------------------
(* C3: every tool call returns a structured result; no handler throws to    *)
(* its caller, whatever the external commands and the store file do.        *)
C3_NeverThrows == ret.outcome = "returned"

-----------------------------------------------------------------------------
(* C5: clear_all and reset_all with confirm absent or false return          *)
(* success: false and leave the store file, the screenshot files and the    *)
(* payload file as they were.                                               *)
C5_NeedsConfirm ==
    [][ \A a \in ConfirmArgs :
            (/\ ret'.op \in {"clear_all", "reset_all"}
             /\ ("confirm" \notin DOMAIN a \/ a.confirm = FALSE)
             /\ (Call(handleClearAll(a)) \/ Call(handleResetAll(a))))
            => /\ ret'.outcome = "returned"
               /\ ret'.body.success = FALSE
               /\ storeFile' = storeFile
               /\ shots' = shots
               /\ pendingFile' = pendingFile
      ]_vars

\* An unconfirmed reset_all with previews, screenshot files and a payload in place.
C5_Witness ==
    /\ Failed(ret, "reset_all")
    /\ ret.body.error = "Please set confirm: true to reset all data"
    /\ Len(PreviewsOf(storeFile)) > 0
    /\ shots # {}
    /\ pendingFile.kind = "json"

-----------------------------------------------------------------------------
(* C6 as claimed: saveStore followed by loadStore gives back the saved      *)
(* store for every store value, and loadStore on an existing file returns   *)
(* the document of the file, no default being applied.                      *)
C6_RoundTripAny ==
    /\ ret.op = "saveStore" => ret.body.loaded = ret.body.saved
    /\ (ret.op = "loadStore" /\ storeFile.kind = "json") => ret.body.loaded = storeFile.doc

(* C6 amended: saveStore followed by loadStore gives back the saved store   *)
(* when its language is not empty, and the saved store with language "ko"   *)
(* when it is; loadStore on an existing file returns its document, with     *)
(* language "ko" added when the file has no language; the four factory      *)
(* defaults are returned when there is no file.                             *)
C6_RoundTrip ==
    /\ ret.op = "saveStore"
        => /\ ret.body.loaded.previews = ret.body.saved.previews
           /\ \A f \in {"defaultDeviceType", "defaultPaletteId", "outputDirectory"} :
                ret.body.loaded.settings[f] = ret.body.saved.settings[f]
           /\ ret.body.loaded.settings.language =
                IF ret.body.saved.settings.language = "" THEN "ko"
                ELSE ret.body.saved.settings.language
    /\ (ret.op = "loadStore" /\ storeFile.kind = "json")
        => /\ ret.body.loaded.previews = storeFile.doc.previews
           /\ \A f \in DOMAIN storeFile.doc.settings \ {"language"} :
                ret.body.loaded.settings[f] = storeFile.doc.settings[f]
           /\ ret.body.loaded.settings.language =
                IF "language" \in DOMAIN storeFile.doc.settings
                    /\ storeFile.doc.settings.language # ""
                THEN storeFile.doc.settings.language ELSE "ko"
    /\ (ret.op = "loadStore" /\ storeFile.kind = "absent")
        => ret.body.loaded =
            [previews |-> <<>>,
             settings |-> [defaultDeviceType |-> "iphone_6_7", defaultPaletteId |-> "ocean",
                           outputDirectory |-> "~/Desktop/Previews", language |-> "ko"]]

\* Two previews saved in the order 2, 1 with language "en" came back.
C6_Witness ==
    /\ ret.op = "saveStore"
    /\ Len(ret.body.saved.previews) = 2
    /\ ret.body.saved.previews[1].id = generateId(2)
    /\ ret.body.saved.settings.language = "en"
    /\ ret.body.loaded = ret.body.saved

-----------------------------------------------------------------------------
(* C11: mapSimulatorToDeviceId returns, for every name, one identifier of    *)
(* the fixed set of its rule list, never the empty string and never an      *)
(* exception; applied again to the same name it returns the same            *)
(* identifier; a name that holds neither "ipad" nor "iphone" followed by    *)
(* 14, 15, 16 or se matches no rule and gets iphone_6_7.                    *)
DeviceIds ==
    {"iphone_6_7", "iphone_6_1_pro", "iphone_6_1", "iphone_5_5",
     "ipad_12_9", "ipad_11", "ipad_10_9", "ipad_8_3"}

MatchesNoRule(name) ==
    /\ ~includes(toLowerCase(name), <<"ipad">>)
    /\ \A g \in {"14", "15", "16", "se"} : ~includes(toLowerCase(name), <<"iphone", g>>)

C11_MapTotal ==
    ret.op = "mapSimulatorToDeviceId"
    => /\ ret.outcome = "returned"
       /\ ret.body.deviceId \in DeviceIds
       /\ ret.body.deviceId # ""
       /\ ret.body.deviceId = mapSimulatorToDeviceId(ret.body.name)
       /\ MatchesNoRule(ret.body.name) => ret.body.deviceId = "iphone_6_7"

\* A phone name without a known generation got the fallback.
C11_Witness ==
    /\ ret.op = "mapSimulatorToDeviceId"
    /\ ret.body.name = <<"iPhone", "Pro", "Max">>
    /\ MatchesNoRule(ret.body.name)
    /\ ret.body.deviceId = "iphone_6_7"

-----------------------------------------------------------------------------
(* C12: without simulatorUDID the simulator captured from is, among the     *)
(* booted simulators in the order the listing gives them, one of highest    *)
(* rank (Pro Max phone 4, Pro phone 3, phone 2, tablet 1, other 0) and the  *)
(* first listed of that rank; capture_simulator reports such a simulator    *)
(* as capturedFrom, no other booted one ranking higher.                     *)
Rank(name) ==
    CASE name = <<"iPhone", "15", "Pro", "Max">> -> 4
      [] name = <<"iPhone", "15", "Pro">> -> 3
      [] name \in {<<"iPhone", "15">>, <<"iPhone", "14">>} -> 2
      [] name = <<"iPad", "Air">> -> 1
      [] OTHER -> 0

C12_BestTarget ==
    /\ [](ret.op = "getBootedSimulators" /\ ret.body.simulatorUDID = Undef
            => LET found == Flatten(ret.body.entries)
               IN  IF found = <<>>
                   THEN ~ret.body.target.found
                   ELSE /\ ret.body.target.found
                        /\ \E i \in 1..Len(found) :
                             /\ ret.body.target.sim.udid = found[i].udid
                             /\ ret.body.target.sim.name = found[i].name
                             /\ \A j \in 1..Len(found) :
                                    Rank(found[j].name) <= Rank(found[i].name)
                             /\ \A j \in 1..(i - 1) :
                                    Rank(found[j].name) < Rank(found[i].name))
    /\ [][ \A k \in 1..Len(running) :
              (/\ running[k].op = "capture_simulator"
               /\ running[k].args.simulatorUDID = Undef
               /\ running' = Others(k)
               /\ Succeeded(ret', "capture_simulator"))
              => \/ "otherBootedSimulators" \notin DOMAIN ret'.body
                 \/ \A o \in 1..Len(ret'.body.otherBootedSimulators) :
                        Rank(ret'.body.otherBootedSimulators[o].name)
                            <= Rank(ret'.body.capturedFrom.name)
        ]_vars

\* capture_simulator took the Pro Max phone although a tablet is listed first.
C12_Witness ==
    /\ Succeeded(ret, "capture_simulator")
    /\ ret.body.capturedFrom.name = <<"iPhone", "15", "Pro", "Max">>
    /\ "otherBootedSimulators" \in DOMAIN ret.body
    /\ \E o \in 1..Len(ret.body.otherBootedSimulators) :
            ret.body.otherBootedSimulators[o].name = <<"iPad", "Air">>

-----------------------------------------------------------------------------
(* C13: when capture_app_screens reaches its loop on a store that can be    *)
(* read and every screenshot command returns, the call succeeds whichever   *)
(* of the files exist afterwards: it runs one screenshot command for each   *)
(* screen, appends to the persisted previews one preview for each screen    *)
(* whose file exists, in the order of the screens, and none for the others, *)
(* and the count of its message and its previews list are what it appended. *)
(* Screen by screen: the step that takes the result of a screenshot command *)
(* which returned adds the preview of that screen when its file is there    *)
(* and nothing otherwise, goes on to the next screen, and answers after the *)
(* last one.                                                                *)
FileScreens(outs) == SelectSeq([i \in 1..Len(outs) |-> i], LAMBDA i : outs[i] = "file")

C13_MissingFileSkipped ==
    /\ [](Idle =>
          \A a \in CaptureScreensArgs, list \in ListOutcomes :
            (ReachesLaunch(a, list) /\ ~loadStoreThrows(storeFile))
            => \A outs \in [1..Len(a.screens) -> {"file", "nofile"}] :
                 LET e == CaptureAppScreensEffect(a, list, "ok", "ok", outs)
                     old == PreviewsOf(storeFile)
                     new == PreviewsOf(e.storeFile)
                     kept == FileScreens(outs)
                 IN  /\ Succeeded(e.ret, "capture_app_screens")
                     /\ Len(SelectSeq(e.ret.cmds, LAMBDA c : c = "screenshot")) = Len(a.screens)
                     /\ new = old \o e.ret.body.previews
                     /\ Len(new) - Len(old) = Len(kept)
                     /\ \A k \in 1..Len(kept) :
                            /\ new[Len(old) + k].title = a.screens[kept[k]].title
                            /\ new[Len(old) + k].screenshotPath \in e.shots \ shots
                     /\ Cardinality(e.shots \ shots) = Len(kept)
                     /\ e.ret.body.message =
                            "Captured " \o ToString(Len(new) - Len(old))
                            \o " screens from " \o BundleText(a.bundleId)
                     /\ e.ret.body.totalPreviews = Len(new))
    /\ [][ \A k \in 1..Len(running) :
              (/\ running[k].at = "screenshot_done"
               /\ ~running[k].rejected
               /\ \/ running' = Others(k)
                  \/ Len(running') = Len(running) /\ running'[k] # running[k])
              => LET r == running[k]
                     a == r.args
                     n == Len(a.screens)
                     old == PreviewsOf(storeFile)
                     new == PreviewsOf(storeFile')
                     answered == running' = Others(k)
                     captured == IF answered THEN ret'.body.previews
                                 ELSE running'[k].capturedPreviews
                     m == Len(r.capturedPreviews)
                 IN  /\ IF r.screenshotPath \in shots
                        THEN /\ Len(captured) = m + 1
                             /\ SubSeq(captured, 1, m) = r.capturedPreviews
                             /\ captured[m + 1].title = a.screens[r.i].title
                             /\ captured[m + 1].screenshotPath = r.screenshotPath
                        ELSE captured = r.capturedPreviews
                     /\ answered <=> r.i = n
                     /\ ~answered => /\ running'[k].i = r.i + 1
                                     /\ storeFile' = storeFile
                     /\ answered
                          => /\ Succeeded(ret', "capture_app_screens")
                             /\ Len(SelectSeq(ret'.cmds, LAMBDA c : c = "screenshot")) = n
                             /\ new = old \o ret'.body.previews
                             /\ ret'.body.message =
                                    "Captured " \o ToString(Len(captured))
                                    \o " screens from " \o BundleText(a.bundleId)
                             /\ ret'.body.totalPreviews = Len(new)
          ]_vars

\* Three screens were tried, the file of the second one was missing: the
\* first and the third are stored.
C13_Witness ==
    /\ Succeeded(ret, "capture_app_screens")
    /\ Len(SelectSeq(ret.cmds, LAMBDA c : c = "screenshot")) = 3
    /\ Len(ret.body.previews) = 2
    /\ ret.body.previews[1].title = "Screen 1"
    /\ ret.body.previews[2].title = "Screen 3"
    /\ PreviewsOf(storeFile) = ret.body.previews

-----------------------------------------------------------------------------
(* C14: capture_simulator called with a simulatorUDID that no simulator of  *)
(* the discovery list has (the list being what getBootedSimulators returns, *)
(* empty when the query fails) returns success: false, whatever the         *)
(* screenshot command would have done: it runs no screenshot command,       *)
(* writes no file and leaves the store file as it was.  A call that names   *)
(* a simulator goes on from the query to its screenshot command only with   *)
(* the simulator of that udid, which is one of the discovery list, and      *)
(* otherwise answers with the failure.                                      *)
\* A watch that is booted, a phone that is shut down, a udid of no device.
UdidsAskedFor == {"UDID-A", "UDID-W", "UDID-D", "UDID-Z"}

UnknownUdidFails ==
    \A list \in ListOutcomes :
      \A udid \in UdidsAskedFor \ DiscoveredUdids(list) :
        \A a \in CaptureSimulatorArgs, shot \in ShotOutcomes :
           LET e == CaptureSimulatorEffect([a EXCEPT !.simulatorUDID = udid], list, shot)
           IN  /\ Failed(e.ret, "capture_simulator")
               /\ e.ret.cmds = <<"list">>
               /\ e.storeFile = storeFile
               /\ e.shots = shots

C14_UnknownUdid ==
    /\ [](Idle => UnknownUdidFails)
    /\ [][ \A k \in 1..Len(running) :
              (/\ running[k].op = "capture_simulator"
               /\ running[k].at = "list"
               /\ running[k].args.simulatorUDID # Undef
               /\ running' # running)
              => IF running' = Others(k)
                 THEN /\ Failed(ret', "capture_simulator")
                      /\ ret'.cmds = <<"list">>
                      /\ storeFile' = storeFile
                      /\ shots' = shots
                 ELSE /\ running'[k].at = "screenshot"
                      /\ running'[k].targetSimulator.udid = running[k].args.simulatorUDID
                      /\ \E i \in 1..Len(running'[k].bootedSimulators) :
                            running'[k].bootedSimulators[i] = running'[k].targetSimulator
                      /\ storeFile' = storeFile
                      /\ shots' = shots
       ]_vars

\* A preview was captured, then the watch was asked for while three
\* simulators were booted: the call failed and the preview is still the only one.
C14_Witness ==
    /\ Failed(ret, "capture_simulator")
    /\ ret.after = "capture_simulator"
    /\ ret.body.error = "Simulator with UDID UDID-W is not booted"
    /\ Len(ret.body.bootedSimulators) = 3
    /\ ret.cmds = <<"list">>
    /\ Len(PreviewsOf(storeFile)) = 1
    /\ Cardinality(shots) = 1

-----------------------------------------------------------------------------
(* C15: on a store that can be read, capture_simulator runs at most one     *)
(* screenshot command, and none when it finds no simulator to capture from. *)
(* It succeeds and appends one preview to the persisted previews exactly    *)
(* when that command returned and its file exists; the preview is the one   *)
(* it returns and its screenshotPath is the one file the call wrote.  When  *)
(* the command fails or the file is missing it returns success: false and   *)
(* leaves the store file and the screenshot files as they were.  The step   *)
(* that answers writes no file: it succeeds exactly when the command it     *)
(* waited for returned and the file of that command is there.               *)
OneCaptureOneRecord ==
    ~loadStoreThrows(storeFile)
    => \A a \in CaptureSimulatorArgs, list \in ListOutcomes, shot \in ShotOutcomes :
         LET e == CaptureSimulatorEffect(a, list, shot)
             old == PreviewsOf(storeFile)
             new == PreviewsOf(e.storeFile)
             ran == Len(SelectSeq(e.ret.cmds, LAMBDA c : c = "screenshot"))
         IN  /\ ran = IF FindsTarget(a, list) THEN 1 ELSE 0
             /\ Succeeded(e.ret, "capture_simulator") <=> (ran = 1 /\ shot = "file")
             /\ Succeeded(e.ret, "capture_simulator")
                  => /\ new = Append(old, e.ret.body.preview)
                     /\ e.shots \ shots = {e.ret.body.preview.screenshotPath}
                     /\ e.ret.body.totalPreviews = Len(new)
             /\ ~Succeeded(e.ret, "capture_simulator")
                  => /\ Failed(e.ret, "capture_simulator")
                     /\ e.storeFile = storeFile
                     /\ e.shots = shots

C15_OneCaptureOneRecord ==
    /\ [](Idle => OneCaptureOneRecord)
    /\ [][ \A k \in 1..Len(running) :
              (running[k].op = "capture_simulator" /\ running' = Others(k))
              => LET r == running[k]
                     old == PreviewsOf(storeFile)
                     new == PreviewsOf(storeFile')
                     ran == Len(SelectSeq(ret'.cmds, LAMBDA c : c = "screenshot"))
                 IN  /\ ran = IF r.at = "list" THEN 0 ELSE 1
                     /\ shots' = shots
                     /\ ~loadStoreThrows(storeFile)
                          => (Succeeded(ret', "capture_simulator")
                                <=> /\ r.at = "screenshot_done"
                                    /\ ~r.rejected
                                    /\ r.screenshotPath \in shots)
                     /\ Succeeded(ret', "capture_simulator")
                          => /\ new = Append(old, ret'.body.preview)
                             /\ ret'.body.preview.screenshotPath = r.screenshotPath
                             /\ ret'.body.totalPreviews = Len(new)
                     /\ ~Succeeded(ret', "capture_simulator")
                          => /\ Failed(ret', "capture_simulator")
                             /\ storeFile' = storeFile
       ]_vars

\* Of three calls that ran the screenshot command only the last one left a
\* file: one preview is stored and it names that file.
C15_Witness ==
    /\ Succeeded(ret, "capture_simulator")
    /\ ret.cmds = <<"list", "screenshot">>
    /\ calls = 3
    /\ now = 4
    /\ PreviewsOf(storeFile) = <<ret.body.preview>>
    /\ shots = {ret.body.preview.screenshotPath}

-----------------------------------------------------------------------------
(* C16: a capture_simulator call whose listing query failed returns a       *)
(* result that differs from the one the same call returns when the query    *)
(* succeeds and lists no booted simulator.                                  *)
C16_DiscoveryFailureDistinct ==
    [][ (Answers /\ ret'.op = "capture_simulator")
        => \A a \in CaptureSimulatorArgs :
             ret' = CaptureSimulatorEffect(a, QueryFailed, "file").ret
             => ret'.body # CaptureSimulatorEffect(a, NothingBooted, "file").ret.body
      ]_vars


(* C17: in every state a call can be made from, launch_and_capture called   *)
(* with platform "auto" or with none, when mdfind does not find the         *)
(* application and no simulator of the listing has it installed (or the     *)
(* listing fails), returns success: false "App not found", whatever the     *)
(* later commands would have done: it runs only the commands of the         *)
(* detection and leaves the store file, the screenshot files and            *)
(* lastLaunchedSimulator as they were.  Called with platform "ios" or       *)
(* "macos" it does not run mdfind and what it does is the same whatever the *)
(* detection would have found.  Step by step: a call that was given its     *)
(* platform is never at a command of the detection; a call answers from the *)
(* detection only with that failure, having changed no file and not the     *)
(* launched simulator, and exactly when the query failed, listed nothing,   *)
(* or the last simulator listed does not have the application; it goes on   *)
(* to the simulator path only from a simulator that has it.                 *)
BootedListing == CHOOSE list \in ListOutcomes : DiscoveredUdids(list) # {}

DetectionAwaits == {"mdfind", "detect list", "detect probe"}

UnknownPlatformFails ==
    /\ \A a \in {x \in LaunchArgs : AutoPlatform(x)} :
         \A mdfind \in MdfindOutcomes, detectList \in ListOutcomes,
            installed \in InstalledSets \cup {{"UDID-W"}} :
           FoundNowhere(mdfind, detectList, installed)
           => \A later \in CmdOutcomes :
                LET e == LaunchAndCaptureEffect(a,
                            [UnreadOutcomes EXCEPT !.mdfind = mdfind,
                                !.detectList = detectList, !.installed = installed,
                                !.list = BootedListing, !.open = later,
                                !.launch = later,
                                !.shot = IF later = "ok" THEN "file" ELSE later], lastLaunchedSimulator)
                IN  /\ Failed(e.ret, "launch_and_capture")
                    /\ e.ret.body.error = "App not found: com.example.app"
                    /\ Range(e.ret.cmds) \subseteq {"mdfind", "list", "get_app_container"}
                    /\ e.storeFile = storeFile
                    /\ e.shots = shots
                    /\ e.last = lastLaunchedSimulator
    /\ \A a \in {x \in LaunchArgs : ~AutoPlatform(x)} :
         \A env \in IF a.platform = "macos"
                    THEN {[UnreadOutcomes EXCEPT !.open = open] : open \in CmdOutcomes}
                    ELSE {[UnreadOutcomes EXCEPT !.installed = installed, !.list = list,
                               !.launch = launch, !.shot = shot] :
                            installed \in InstalledSets, list \in ListOutcomes,
                            launch \in CmdOutcomes, shot \in ShotOutcomes} :
           LET e == LaunchAndCaptureEffect(a, env, lastLaunchedSimulator)
           IN  /\ "mdfind" \notin Range(e.ret.cmds)
               /\ LaunchAndCaptureEffect(a, [env EXCEPT !.mdfind = "found",
                                                !.detectList = BootedListing], lastLaunchedSimulator) = e

C17_UnknownPlatformFails ==
    /\ []((Idle /\ calls < MaxLaunchCalls) => UnknownPlatformFails)
    /\ [](\A k \in 1..Len(running) :
            (running[k].op = "launch_and_capture" /\ ~AutoPlatform(running[k].args))
            => /\ "mdfind" \notin Range(running[k].cmds)
               /\ running[k].at \notin DetectionAwaits)
    /\ [][ \A k \in 1..Len(running) :
              (/\ running[k].op = "launch_and_capture"
               /\ running[k].at \in DetectionAwaits
               /\ running' # running)
              => LET r == running[k]
                     last == r.at = "detect probe" /\ r.i = Len(r.simulators)
                     has == r.at = "detect probe" /\ r.simulators[r.i].udid \in r.installed
                 IN  /\ storeFile' = storeFile
                     /\ shots' = shots
                     /\ lastLaunchedSimulator' = lastLaunchedSimulator
                     /\ IF running' = Others(k)
                        THEN /\ Failed(ret', "launch_and_capture")
                             /\ ret'.body.error = "App not found: com.example.app"
                             /\ Range(ret'.cmds) \subseteq {"mdfind", "list", "get_app_container"}
                             /\ r.at = "detect list" \/ (last /\ ~has)
                        ELSE /\ running'[k].at \in DetectionAwaits \cup {"open -b", "list"}
                             /\ running'[k].at = "list" <=> has
                             /\ running'[k].at = "open -b" => r.at = "mdfind"
                             /\ ~(last /\ ~has)
       ]_vars

\* After a capture from a simulator the application was looked for on the
\* desktop and on the three booted simulators and found nowhere: the call
\* failed, the preview and the launched simulator are the ones of before.
C17_Witness ==
    /\ Failed(ret, "launch_and_capture")
    /\ ret.after = "launch_and_capture"
    /\ ret.body.error = "App not found: com.example.app"
    /\ ret.cmds = <<"mdfind", "list", "get_app_container", "get_app_container",
                    "get_app_container">>
    /\ lastLaunchedSimulator # Null
    /\ Len(PreviewsOf(storeFile)) = 1
    /\ Cardinality(shots) = 1

-----------------------------------------------------------------------------
(* C18: every result the dispatcher returns, whatever the name of the tool, *)
(* is an object with a field success that is true or false.                 *)
C18_SuccessField ==
    (ret.op # "none" /\ ret.outcome = "returned")
    => /\ "success" \in DOMAIN ret.body
       /\ ret.body.success \in BOOLEAN

-----------------------------------------------------------------------------
(* C19: a call of any tool other than update_settings on a store file that  *)
(* exists and can be read leaves the settings of the file as they were,     *)
(* also when the file was written without a language.                       *)
C19_SettingsFrame ==
    [][ (/\ Answers
         /\ ret'.op # "update_settings"
         /\ storeFile.kind = "json"
         /\ storeFile'.kind = "json")
        => storeFile'.doc.settings = storeFile.doc.settings
      ]_vars

-----------------------------------------------------------------------------
(* C20: a preview that add_preview creates without deviceId and paletteId   *)
(* takes defaultDeviceType and defaultPaletteId of the settings as they are *)
(* when it is created.  Afterwards a call changes the deviceId or the       *)
(* paletteId of a stored preview only when it is a successful               *)
(* update_preview of that id; a call of update_settings leaves the          *)
(* persisted previews as they were.                                         *)
C20_DefaultsFrozen ==
    [][ calls' = calls + 1 =>
        /\ \A a \in {x \in AddArgs : x.deviceId = Undef /\ x.paletteId = Undef} :
              (Succeeded(ret', "add_preview") /\ Call(handleAddPreview(a)))
              => /\ ret'.body.preview.deviceId
                      = Get(loadStore(storeFile).settings, "defaultDeviceType")
                 /\ ret'.body.preview.paletteId
                      = Get(loadStore(storeFile).settings, "defaultPaletteId")
                 /\ ret'.body.preview
                      = PreviewsOf(storeFile')[Len(PreviewsOf(storeFile'))]
        /\ \A i \in 1..Len(PreviewsOf(storeFile)), j \in 1..Len(PreviewsOf(storeFile')) :
              (/\ PreviewsOf(storeFile)[i].id = PreviewsOf(storeFile')[j].id
               /\ ~(/\ Succeeded(ret', "update_preview")
                    /\ ret'.body.preview.id = PreviewsOf(storeFile)[i].id))
              => /\ PreviewsOf(storeFile')[j].deviceId = PreviewsOf(storeFile)[i].deviceId
                 /\ PreviewsOf(storeFile')[j].paletteId = PreviewsOf(storeFile)[i].paletteId
        /\ ret'.op = "update_settings"
              => PreviewsOf(storeFile') = PreviewsOf(storeFile)
      ]_vars

\* A preview was created with the defaults of a fresh store, then both
\* defaults were changed: the preview keeps the ones it was created with.
C20_Witness ==
    /\ Succeeded(ret, "update_settings")
    /\ ret.after = "add_preview"
    /\ ret.body.settings.defaultDeviceType = "ipad_11"
    /\ ret.body.settings.defaultPaletteId = "sunset"
    /\ Len(PreviewsOf(storeFile)) = 1
    /\ PreviewsOf(storeFile)[1].deviceId = "iphone_6_7"
    /\ PreviewsOf(storeFile)[1].paletteId = "ocean"
    /\ storeFile.doc.settings = ret.body.settings

-----------------------------------------------------------------------------
(* C21: a command starts only when no earlier command is suspended at one   *)
(* of its external steps.                                                   *)
C21_OneAtATime ==
    [][ calls' = calls + 1 => running = <<>> ]_vars

-----------------------------------------------------------------------------
(* C22: no step of a command loses a persisted record: every preview of the *)
(* store file before a step of add_preview or capture_app_screens is in the *)
(* store file after it.                                                     *)
C22_NoLostUpdate ==
    [][ \A i \in 1..Len(PreviewsOf(storeFile)) :
            \E j \in 1..Len(PreviewsOf(storeFile')) :
                PreviewsOf(storeFile')[j] = PreviewsOf(storeFile)[i]
      ]_vars

-----------------------------------------------------------------------------
(* C23 as claimed: loading a store file in which any of defaultDeviceType,  *)
(* defaultPaletteId, outputDirectory and language is missing gives settings *)
(* in which that field has its factory default.                             *)
C23_MissingFieldsDefaulted ==
    (ret.op = "loadStore" /\ storeFile.kind = "json")
    => \A f \in DOMAIN DefaultSettings \ DOMAIN storeFile.doc.settings :
          Get(ret.body.loaded.settings, f) = DefaultSettings[f]

(* C23 amended: loading a parseable store file does not fail; a language    *)
(* that is missing or empty is loaded as "ko", any other language as it is; *)
(* defaultDeviceType, defaultPaletteId and outputDirectory are loaded as    *)
(* they are in the file, a missing one staying missing.                     *)
C23_LanguageDefaulted ==
    (ret.op = "loadStore" /\ storeFile.kind = "json")
    => /\ ret.outcome = "returned"
       /\ Get(ret.body.loaded.settings, "language")
            = IF Truthy(Get(storeFile.doc.settings, "language"))
              THEN storeFile.doc.settings.language ELSE DefaultSettings.language
       /\ \A f \in DOMAIN DefaultSettings \ {"language"} :
            Get(ret.body.loaded.settings, f) = Get(storeFile.doc.settings, f)
       /\ ret.body.loaded.previews = storeFile.doc.previews

\* A file without language and without outputDirectory was loaded: the
\* language is "ko" and there is still no outputDirectory.
C23_Witness ==
    /\ ret.op = "loadStore"
    /\ storeFile.kind = "json"
    /\ DOMAIN storeFile.doc.settings = {"defaultDeviceType", "defaultPaletteId"}
    /\ ret.body.loaded.settings.language = "ko"
    /\ "outputDirectory" \notin DOMAIN ret.body.loaded.settings

-----------------------------------------------------------------------------
(* C24: every simulator in the answer of list_simulators is accepted by     *)
(* capture_simulator as a booted target when its udid is given as           *)
(* simulatorUDID and the simctl query prints what it printed for            *)
(* list_simulators.                                                         *)
C24_ListedCanBeCaptured ==
    \A list \in ListOutcomes :
        (/\ ret.op = "list_simulators"
         /\ ret.body = ListSimulatorsBody(list)
         /\ ret.body.success)
        => \A i \in 1..Len(ret.body.simulators) :
              FindsTarget([simulatorUDID |-> ret.body.simulators[i].udid], list)

-----------------------------------------------------------------------------
(* C25: in a call of open_app, generate_previews or create_app_previews     *)
(* that attempts the activation of the rendering application, the payload   *)
(* file holds the previews of the store whatever the outcome of the         *)
(* activation (it was written before); the data directory is opened exactly *)
(* when the activation failed, and after it; open_app and generate_previews *)
(* leave the store file as it was, and the store create_app_previews saved  *)
(* before its handoff is the one on disk after it.  While open_app or       *)
(* generate_previews waits for the activation or for the opening of the     *)
(* data directory, the payload file is already written and holds the        *)
(* previews of the store; so it is while create_app_previews waits for      *)
(* them, with the previews it saved, and its steps from there write         *)
(* neither file.                                                            *)
HandoffTools == {"open_app", "generate_previews", "create_app_previews"}

\* The answer says that the rendering application was opened.
AppOpened(r) ==
    /\ r.outcome = "returned"
    /\ r.body.success
    /\ "appInstalled" \notin DOMAIN r.body
    /\ r.op = "create_app_previews" => r.body.appOpened

PayloadPreviews(file, op) ==
    IF op = "open_app" THEN file.doc ELSE file.doc.previews

AtHandoff(r) ==
    \/ r.op \in {"open_app", "generate_previews"}
    \/ r.op = "create_app_previews" /\ r.at \in {"open -b", "open dataDir"}

C25_Handoff ==
    /\ [](\A k \in 1..Len(running) :
             AtHandoff(running[k])
                 => /\ pendingFile.kind = "json"
                    /\ PayloadPreviews(pendingFile, running[k].op) = PreviewsOf(storeFile)
                    /\ running[k].op = "create_app_previews"
                         => PreviewsOf(storeFile) = running[k].store.previews)
    /\ [][ /\ (\E k \in 1..Len(running') :
                  running'[k].op \in {"open_app", "generate_previews"})
                => storeFile' = storeFile
           /\ (\E k \in 1..Len(running) :
                  running[k].op = "create_app_previews" /\ AtHandoff(running[k]))
                => (storeFile' = storeFile /\ pendingFile' = pendingFile)
           /\ (Answers /\ ret'.op \in HandoffTools) =>
               /\ "open -b" \in Range(ret'.cmds)
                   => /\ pendingFile'.kind = "json"
                      /\ PayloadPreviews(pendingFile', ret'.op) = PreviewsOf(storeFile')
                      /\ ("open dataDir" \in Range(ret'.cmds)) <=> ~AppOpened(ret')
               /\ "open dataDir" \in Range(ret'.cmds)
                   => /\ Len(ret'.cmds) >= 2
                      /\ ret'.cmds[Len(ret'.cmds) - 1] = "open -b"
                      /\ ret'.cmds[Len(ret'.cmds)] = "open dataDir"
               /\ "open -b" \notin Range(ret'.cmds)
                   => (pendingFile' = pendingFile /\ ~AppOpened(ret'))
               /\ ret'.op \in {"open_app", "generate_previews"}
                   => storeFile' = storeFile
      ]_vars

\* generate_previews wrote the payload of a store filled by add_preview,
\* could not activate the rendering application and opened the data
\* directory.
C25_Witness ==
    /\ ret.op = "generate_previews"
    /\ ret.outcome = "returned"
    /\ ret.body.success
    /\ "open dataDir" \in Range(ret.cmds)
    /\ pendingFile.kind = "json"
    /\ Len(pendingFile.doc.previews) >= 1
    /\ pendingFile.doc.previews = PreviewsOf(storeFile)

-----------------------------------------------------------------------------
(* C26: update_preview called with the id of a stored preview and a         *)
(* screenshotPath that does not exist answers success false and leaves the  *)
(* store file as it was, the title given in the same call included.        *)
C26_MissingScreenshotKeepsRecord ==
    [][ \A a \in UpdateArgs :
          (/\ calls' = calls + 1
           /\ a.screenshotPath = MissingFile
           /\ \E i \in 1..Len(PreviewsOf(storeFile)) : PreviewsOf(storeFile)[i].id = a.id
           /\ Call(handleUpdatePreview(a)))
          => /\ Failed(ret', "update_preview")
             /\ ret'.body.error = "Screenshot not found"
             /\ storeFile' = storeFile
      ]_vars

\* The call was refused for its screenshot on a store that holds a preview
\* with the title it was created with.
C26_Witness ==
    /\ Failed(ret, "update_preview")
    /\ ret.body.error = "Screenshot not found"
    /\ Len(PreviewsOf(storeFile)) >= 1
    /\ \A i \in 1..Len(PreviewsOf(storeFile)) : PreviewsOf(storeFile)[i].title = "T1"

-----------------------------------------------------------------------------
(* C27: the deviceId of the preview a successful capture_simulator creates  *)
(* is the deviceId of the call when one is given, and otherwise what        *)
(* mapSimulatorToDeviceId gives for the name of the simulator captured      *)
(* from; as that is always a value, the defaultDeviceType of the store is   *)
(* never what decides it.                                                   *)
DeviceIdPrecedence ==
    ~loadStoreThrows(storeFile)
    => \A a \in CaptureSimulatorArgs, list \in ListOutcomes :
         LET e == CaptureSimulatorEffect(a, list, "file")
         IN  Succeeded(e.ret, "capture_simulator")
             => /\ e.ret.body.preview.deviceId
                    = IF a.deviceId # Undef THEN a.deviceId
                      ELSE mapSimulatorToDeviceId(e.ret.body.capturedFrom.name)
                /\ mapSimulatorToDeviceId(e.ret.body.capturedFrom.name) # Undef
                /\ mapSimulatorToDeviceId(e.ret.body.capturedFrom.name) # ""
                /\ PreviewsOf(e.storeFile)[Len(PreviewsOf(e.storeFile))].deviceId
                    = e.ret.body.preview.deviceId

C27_DeviceIdPrecedence ==
    /\ [](Idle => DeviceIdPrecedence)
    /\ [][ \A k \in 1..Len(running) :
              (/\ running[k].op = "capture_simulator"
               /\ running' = Others(k)
               /\ Succeeded(ret', "capture_simulator"))
              => /\ ret'.body.preview.deviceId
                     = IF running[k].args.deviceId # Undef
                       THEN running[k].args.deviceId
                       ELSE mapSimulatorToDeviceId(running[k].targetSimulator.name)
                 /\ ret'.body.capturedFrom = running[k].targetSimulator
                 /\ PreviewsOf(storeFile')[Len(PreviewsOf(storeFile'))].deviceId
                     = ret'.body.preview.deviceId
       ]_vars

\* A capture from the iPhone 15 without deviceId was stored with the
\* identifier of that name, which is not the default device of the store.
C27_Witness ==
    /\ Succeeded(ret, "capture_simulator")
    /\ ret.body.capturedFrom.udid = "UDID-A"
    /\ ret.body.preview.deviceId = mapSimulatorToDeviceId(<<"iPhone", "15">>)
    /\ ret.body.preview.deviceId # loadStore(storeFile).settings.defaultDeviceType
    /\ ret.body.preview.deviceId # "ipad_11"

-----------------------------------------------------------------------------
(* C28: on the simulator path launch_and_capture launches on the discovered *)
(* simulator whose udid is the simulatorUDID given; when none is given or   *)
(* none has it, on the first one of the discovery list on which the         *)
(* application is installed; when it is installed on none, on the first of  *)
(* the list.  The simulators are probed in list order up to the first that  *)
(* has the application, a probe that fails being followed by the next.      *)
(* Step by step: from the query the call goes to the terminate command with *)
(* the simulator of the udid given, or to the probe of the first simulator; *)
(* from the probe of simulator i, all the simulators before it having       *)
(* failed theirs, it goes on with simulator i when it has the application,  *)
(* to the probe of simulator i + 1 when there is one, and with the first    *)
(* simulator otherwise; the launch command is run on that target.           *)
Installations == SUBSET {"UDID-A", "UDID-B", "UDID-C"}

TargetResolution ==
    \A a \in {x \in LaunchArgs : x.platform = "ios" /\ x.simulatorUDID = Undef},
       udid \in OptUdids,
       installed \in Installations, launch \in CmdOutcomes :
        LET booted == getBootedSimulators(BootedListing.entries)
            has == {i \in 1..Len(booted) : booted[i].udid \in installed}
            firstHas == CHOOSE i \in has : \A j \in has : i <= j
            byUdid == \E i \in 1..Len(booted) : booted[i].udid = udid
            expected == IF byUdid
                        THEN CHOOSE sim \in Range(booted) : sim.udid = udid
                        ELSE IF has # {} THEN booted[firstHas] ELSE booted[1]
            e == LaunchAndCaptureEffect([a EXCEPT !.simulatorUDID = udid],
                    [UnreadOutcomes EXCEPT !.installed = installed, !.list = BootedListing,
                        !.launch = launch, !.shot = "file"], lastLaunchedSimulator)
            probes == Len(SelectSeq(e.ret.cmds, LAMBDA c : c = "get_app_container"))
        IN  /\ launch = "ok"
                => /\ e.last.udid = expected.udid
                   /\ e.last.name = expected.name
                   /\ Succeeded(e.ret, "launch_and_capture")
                        => e.ret.body.simulator.udid = expected.udid
            /\ launch = "fails"
                => /\ Failed(e.ret, "launch_and_capture")
                   /\ e.ret.body.simulator = expected.name
            /\ probes = IF byUdid THEN 0
                        ELSE IF has # {} THEN firstHas ELSE Len(booted)

C28_TargetResolution ==
    /\ []((Idle /\ calls < MaxLaunchCalls) => TargetResolution)
    /\ [](\A k \in 1..Len(running) :
            (running[k].op = "launch_and_capture" /\ running[k].at = "get_app_container")
            => \A j \in 1..(running[k].i - 1) :
                  running[k].bootedSimulators[j].udid \notin running[k].installed)
    /\ [][ \A k \in 1..Len(running) :
              (/\ running[k].op = "launch_and_capture"
               /\ running[k].at \in {"list", "get_app_container", "launch"}
               /\ running' # running)
              => LET r == running[k]
                     q == running'[k]
                     left == running' = Others(k)
                 IN  CASE r.at = "list" ->
                            left \/ IF q.at = "terminate"
                                    THEN /\ q.targetSimulator.udid = r.args.simulatorUDID
                                         /\ q.cmds = Append(r.cmds, "list")
                                    ELSE /\ q.at = "get_app_container"
                                         /\ q.i = 1
                                         /\ \A j \in 1..Len(q.bootedSimulators) :
                                               q.bootedSimulators[j].udid
                                                    # r.args.simulatorUDID
                       [] r.at = "get_app_container" ->
                            /\ ~left
                            /\ q.cmds = Append(r.cmds, "get_app_container")
                            /\ IF r.bootedSimulators[r.i].udid \in r.installed
                               THEN /\ q.at = "terminate"
                                    /\ q.targetSimulator = r.bootedSimulators[r.i]
                               ELSE IF r.i < Len(r.bootedSimulators)
                               THEN /\ q.at = "get_app_container"
                                    /\ q.i = r.i + 1
                               ELSE /\ q.at = "terminate"
                                    /\ q.targetSimulator = r.bootedSimulators[1]
                       [] r.at = "launch" ->
                            IF left
                            THEN /\ Failed(ret', "launch_and_capture")
                                 /\ ret'.body.simulator = r.targetSimulator.name
                                 /\ lastLaunchedSimulator' = lastLaunchedSimulator
                            ELSE /\ lastLaunchedSimulator'.udid = r.targetSimulator.udid
                                 /\ lastLaunchedSimulator'.name = r.targetSimulator.name
                                 /\ q.targetSimulator = r.targetSimulator
       ]_vars

\* The application was on the second simulator of the list only: the first
\* was probed, then the second, and the launch and the capture were on it.
C28_Witness ==
    /\ Succeeded(ret, "launch_and_capture")
    /\ ret.cmds = <<"list", "get_app_container", "get_app_container",
                    "terminate", "launch", "screenshot">>
    /\ ret.body.simulator.udid = "UDID-A"
    /\ lastLaunchedSimulator.udid = "UDID-A"
    /\ getBootedSimulators(BootedListing.entries)[2].udid = "UDID-A"

-----------------------------------------------------------------------------
(* C29: a call of launch_and_capture on the simulator path, or of           *)
(* capture_app_screens, that has found its target runs the terminate        *)
(* command and then the launch command, whether the terminate command       *)
(* returned or failed, and the outcome of the terminate command changes     *)
(* nothing of what the call does; every screenshot command comes after the  *)
(* launch command, and none is run when the launch command failed.  Step by *)
(* step: the step in which the terminate command ends, either way, leaves   *)
(* the call at its launch command and changes nothing else; a call answers  *)
(* from its launch command only with a failure; a call is at a screenshot   *)
(* command only after its terminate and launch commands.                    *)
TerminateThenLaunch(cmds) ==
    /\ Len(SelectSeq(cmds, LAMBDA c : c = "terminate")) = 1
    /\ Len(SelectSeq(cmds, LAMBDA c : c = "launch")) = 1
    /\ \A i \in 1..Len(cmds) :
          /\ cmds[i] = "terminate" => (i < Len(cmds) /\ cmds[i + 1] = "launch")
          /\ cmds[i] = "screenshot" => \E j \in 1..(i - 1) : cmds[j] = "launch"

\* The two handlers as functions of the outcomes of their commands.
RelaunchEffects ==
    \A terminate \in CmdOutcomes, launch \in CmdOutcomes, list \in ListOutcomes :
        /\ \A a \in CaptureScreensArgs :
              ReachesLaunch(a, list)
              => LET outs == [i \in 1..Len(a.screens) |-> "file"]
                     e == CaptureAppScreensEffect(a, list, terminate, launch, outs)
                 IN  /\ TerminateThenLaunch(e.ret.cmds)
                     /\ launch = "fails"
                          => /\ "screenshot" \notin Range(e.ret.cmds)
                             /\ Failed(e.ret, "capture_app_screens")
                             /\ e.shots = shots
                     /\ e = CaptureAppScreensEffect(a, list, "ok", launch, outs)
        /\ \A a \in {x \in LaunchArgs : x.platform = "ios" /\ x.deviceId = Undef} :
              DiscoveredUdids(list) # {}
              => LET env == [UnreadOutcomes EXCEPT !.list = list, !.terminate = terminate,
                                !.launch = launch]
                     e == LaunchAndCaptureEffect(a, env, lastLaunchedSimulator)
                 IN  /\ TerminateThenLaunch(e.ret.cmds)
                     /\ launch = "fails"
                          => /\ "screenshot" \notin Range(e.ret.cmds)
                             /\ Failed(e.ret, "launch_and_capture")
                             /\ e.shots = shots
                     /\ e = LaunchAndCaptureEffect(a, [env EXCEPT !.terminate = "ok"], lastLaunchedSimulator)

C29_TerminateLaunchCapture ==
    /\ [](/\ (ret.op = "capture_app_screens" /\ Len(ret.cmds) > 1)
               => /\ TerminateThenLaunch(ret.cmds)
                  /\ ret.cmds[Len(ret.cmds)] = "launch" => Failed(ret, "capture_app_screens")
          /\ (ret.op = "launch_and_capture" /\ "terminate" \in Range(ret.cmds))
               => /\ TerminateThenLaunch(ret.cmds)
                  /\ ret.cmds[Len(ret.cmds)] = "launch" => Failed(ret, "launch_and_capture")
          /\ \A k \in 1..Len(running) :
                running[k].at \in {"sleep", "screenshot", "screenshot_done"}
                => /\ TerminateThenLaunch(running[k].cmds)
                   /\ running[k].op = "capture_app_screens"
                        => SubSeq(running[k].cmds, 1, 3) = <<"list", "terminate", "launch">>
          /\ Idle => RelaunchEffects)
    /\ [][ \A k \in 1..Len(running) :
              (running[k].at \in {"terminate", "launch"} /\ running' # running)
              => IF running[k].at = "terminate"
                 THEN /\ running' = [running EXCEPT ![k] =
                                        [running[k] EXCEPT !.at = "launch",
                                                           !.cmds = Append(@, "terminate")]]
                      /\ UNCHANGED <<storeFile, shots, pendingFile,
                                     lastLaunchedSimulator, now, ret>>
                 ELSE IF running' = Others(k)
                 THEN /\ Failed(ret', running[k].op)
                      /\ "screenshot" \notin Range(ret'.cmds)
                      /\ UNCHANGED <<storeFile, shots, pendingFile, lastLaunchedSimulator>>
                 ELSE /\ running'[k].at = "screenshot"
                      /\ running'[k].cmds = Append(running[k].cmds, "launch")
                      /\ shots' = shots
       ]_vars

\* capture_app_screens has run terminate, launch and then its two screenshot
\* commands, and stored the two screens.
C29_Witness ==
    /\ Succeeded(ret, "capture_app_screens")
    /\ ret.cmds = <<"list", "terminate", "launch", "screenshot", "screenshot">>
    /\ Len(PreviewsOf(storeFile)) = 2

-----------------------------------------------------------------------------
(* C30: a call changes lastLaunchedSimulator only when it has launched the  *)
(* application on a simulator, and after every call of launch_and_capture   *)
(* or capture_app_screens whose launch on a simulator succeeded             *)
(* lastLaunchedSimulator holds the udid and the name of that simulator and  *)
(* the bundleId launched.                                                   *)
C30_SessionTracksLaunch ==
    [][ /\ lastLaunchedSimulator' # lastLaunchedSimulator
            => /\ \E k \in 1..Len(running) :
                     /\ running[k].at = "launch"
                     /\ Len(running') = Len(running)
                     /\ running'[k].at = "screenshot"
               /\ DOMAIN lastLaunchedSimulator' = {"udid", "name", "bundleId"}
        /\ (/\ Answers
            /\ ret'.outcome = "returned"
            /\ ret'.body.success = TRUE
            /\ "launch" \in Range(ret'.cmds))
            => /\ lastLaunchedSimulator' # Null
               /\ lastLaunchedSimulator'.udid = ret'.body.simulator.udid
               /\ lastLaunchedSimulator'.name = ret'.body.simulator.name
               /\ lastLaunchedSimulator'.bundleId = "com.example.app"
      ]_vars


-----------------------------------------------------------------------------
(* C31: lastLaunchedSimulator is advisory only.  Whatever value it holds    *)
(* when launch_and_capture or create_app_previews is called (nothing, the   *)
(* simulator chosen by default, another booted simulator), the same         *)
(* arguments and the same outcomes of the commands give the same result,    *)
(* the same store file, the same screenshots and the same payload file as   *)
(* with the value it holds now.  No other handler has the variable in its   *)
(* scope.  Step by step: from its query a call goes to the terminate        *)
(* command only with the simulator of the udid it was given, and a call     *)
(* that was given none goes to the probes, whatever the variable holds.     *)
Sessions ==
    {Null}
    \cup {[udid |-> d.udid, name |-> d.name, bundleId |-> "com.example.app"] :
            d \in {Device(<<"iPhone", "15", "Pro", "Max">>, "UDID-C", "Booted"),
                   Device(<<"iPad", "Air">>, "UDID-B", "Booted")}}

SessionAdvisory ==
    /\ \A a \in {x \in LaunchArgs : x.deviceId = Undef} :
         \A env \in LaunchOutcomes(a) :
            \E e \in {LaunchAndCaptureEffect(a, env, lastLaunchedSimulator)} :
               \A session \in Sessions :
                  \E f \in {LaunchAndCaptureEffect(a, env, session)} :
                     /\ f.ret = e.ret
                     /\ f.storeFile = e.storeFile
                     /\ f.shots = e.shots
    /\ \A a \in CreateArgs :
         \A env \in CreateOutcomes(a) :
            \E e \in {CreateAppPreviewsEffect(a, env, lastLaunchedSimulator)} :
               \A session \in Sessions :
                  \E f \in {CreateAppPreviewsEffect(a, env, session)} :
                     /\ f.ret = e.ret
                     /\ f.storeFile = e.storeFile
                     /\ f.shots = e.shots
                     /\ f.pendingFile = e.pendingFile

C31_SessionAdvisory ==
    /\ []((Idle /\ (ret.op = "none" \/ FirstLaunchDone)) => SessionAdvisory)
    /\ [][ \A k \in 1..Len(running) :
              (/\ running[k].op \in {"launch_and_capture", "create_app_previews"}
               /\ running[k].at = "list"
               /\ running' # running
               /\ running' # Others(k))
              => /\ running'[k].at \in {"terminate", "get_app_container"}
                 /\ running'[k].at = "terminate"
                      => running'[k].targetSimulator.udid = running[k].args.simulatorUDID
                 /\ running[k].args.simulatorUDID = Undef
                      => running'[k].at = "get_app_container"
                 /\ lastLaunchedSimulator' = lastLaunchedSimulator
       ]_vars

\* create_app_previews was called without marketing copy after a launch on
\* the phone asked for by its udid: the variable held that simulator during
\* the call, and holds it still.
C31_Witness ==
    /\ calls = 2
    /\ ret.op = "create_app_previews"
    /\ ret.after = "launch_and_capture"
    /\ ret.body.success = FALSE
    /\ lastLaunchedSimulator # Null
    /\ lastLaunchedSimulator.udid = "UDID-A"


-----------------------------------------------------------------------------
(* C32: detectPlatform gives macos whenever mdfind prints a path, whatever  *)
(* the simulators hold; it gives ios exactly when mdfind prints nothing or  *)
(* fails and a simulator that getBootedSimulators returns has the           *)
(* application; it gives null in every other case.  A failing mdfind, a     *)
(* failing simctl query and a failing get_app_container are each taken as   *)
(* "not found", and the function returns in every case.                     *)
C32_DetectPlatform ==
    ret.op = "detectPlatform" =>
        LET b == ret.body
            onDesktop == b.mdfind = "found"
            onSimulator == DiscoveredUdids(b.detectList) \cap b.installed # {}
        IN  /\ ret.outcome = "returned"
            /\ b.detected.platform \in {"macos", "ios", NotDetected}
            /\ onDesktop => b.detected.platform = "macos"
            /\ b.detected.platform = "ios" <=> (~onDesktop /\ onSimulator)
            /\ b.detected.platform = NotDetected <=> (~onDesktop /\ ~onSimulator)
            /\ (b.mdfind = "fails" /\ ~b.detectList.ok) => b.detected.platform = NotDetected

\* mdfind failed, the watch and the tablet have the application: the tablet,
\* third of the simulators of the mobile family, made the detection say ios.
C32_Witness ==
    /\ ret.op = "detectPlatform"
    /\ ret.body.mdfind = "fails"
    /\ ret.body.installed = {"UDID-B", "UDID-W"}
    /\ ret.body.detected.platform = "ios"
    /\ ret.body.detected.cmds = <<"mdfind", "list", "get_app_container",
                                   "get_app_container", "get_app_container">>


-----------------------------------------------------------------------------
(* C33: captureMacOSWindow returns true only when the output file exists    *)
(* at its end, whether the capture commands returned or failed and whether  *)
(* they wrote the file or not; the fallback (activate the application, then *)
(* capture the front window) is run whenever the question for the window id *)
(* fails or gives an empty answer; and launch_and_capture on the desktop    *)
(* changes the persisted previews only when captureMacOSWindow returned     *)
(* true, in which case it appends one preview to a store it can read.  Step *)
(* by step: launch_and_capture answers with success from the awaits of      *)
(* captureMacOSWindow exactly when a capture command has returned, its file *)
(* is there and the store can be read; it changes the store file in no      *)
(* other step; a capture by window id that failed leads to the fallback.    *)
WindowAwaits == {"osascript id", "screencapture -l", "screencapture -l_done",
                 "osascript activate", "screencapture -w", "screencapture -w_done"}

FileIsTheSignal ==
    /\ ret.op = "captureMacOSWindow" =>
            LET run == ret.body.run
                result == ret.body.result
            IN  /\ result.captured => result.written
                /\ (run.window = "id" /\ run.byId = "nofile") => ~result.captured
                /\ run.window \in {"empty", "fails"}
                    => /\ result.cmds[2] = "osascript activate"
                       /\ run.activate = "ok" => result.cmds[3] = "screencapture -w"
                       /\ "screencapture -l" \notin Range(result.cmds)
    /\ (Idle /\ ret.op = "none") =>
            \A a \in {x \in LaunchArgs : x.platform = "macos"}, run \in MacCaptureRuns :
                \E e \in {LaunchAndCaptureEffect(a, [UnreadOutcomes EXCEPT !.mac = run],
                                                  lastLaunchedSimulator)} :
                    IF captureMacOSWindow(run).captured /\ ~loadStoreThrows(storeFile)
                    THEN /\ Succeeded(e.ret, "launch_and_capture")
                         /\ PreviewsOf(e.storeFile)
                                = Append(loadStore(storeFile).previews, e.ret.body.preview)
                         /\ e.ret.body.preview.screenshotPath \in e.shots
                    ELSE /\ Failed(e.ret, "launch_and_capture")
                         /\ e.storeFile = storeFile

C33_FileIsTheSignal ==
    /\ []FileIsTheSignal
    /\ [][ \A k \in 1..Len(running) :
              (/\ running[k].op = "launch_and_capture"
               /\ running[k].at \in WindowAwaits
               /\ running' # running)
              => LET r == running[k]
                     returned == /\ r.at \in {"screencapture -l_done", "screencapture -w_done"}
                                 /\ ~r.rejected
                 IN  IF running' = Others(k)
                     THEN /\ Succeeded(ret', "launch_and_capture")
                            <=> (/\ returned
                                 /\ r.screenshotPath \in shots
                                 /\ ~loadStoreThrows(storeFile))
                          /\ Succeeded(ret', "launch_and_capture")
                               => /\ PreviewsOf(storeFile')
                                        = Append(loadStore(storeFile).previews,
                                                 ret'.body.preview)
                                  /\ ret'.body.preview.screenshotPath = r.screenshotPath
                          /\ ~Succeeded(ret', "launch_and_capture")
                               => /\ Failed(ret', "launch_and_capture")
                                  /\ storeFile' = storeFile
                          /\ shots' = shots
                     ELSE /\ storeFile' = storeFile
                          /\ running'[k].at \in WindowAwaits
                          /\ (r.at = "screencapture -l_done" /\ r.rejected)
                               => running'[k].at = "osascript activate"
                          /\ (r.at = "osascript id" /\ running'[k].at # "screencapture -l")
                               => running'[k].at = "osascript activate"
       ]_vars

\* The capture by window id failed after it wrote the file, the fallback was
\* run and its capture returned without writing any: true was returned.
C33_Witness ==
    /\ ret.op = "captureMacOSWindow"
    /\ ret.body.run.byId = "fails, file"
    /\ ret.body.run.front = "nofile"
    /\ ret.body.result.captured
    /\ ret.body.result.cmds = <<"osascript id", "screencapture -l", "osascript activate",
                                "screencapture -w">>


-----------------------------------------------------------------------------
(* C34: the rules of mapSimulatorToDeviceId are tried from the first to the *)
(* last and the first one that matches gives the identifier.  A name that   *)
(* contains "iphone 15 pro max" gives iphone_6_7 although the rules of      *)
(* "iphone 15 pro" and of "iphone 15" match it too; a name that contains    *)
(* "ipad" and matches none of the rules before the last one gives           *)
(* ipad_10_9.                                                               *)
Rule(phrases, deviceId) == [phrases |-> phrases, deviceId |-> deviceId]

Rules ==
    << Rule({<<"iphone", "15", "pro", "max">>, <<"iphone", "16", "pro", "max">>}, "iphone_6_7"),
       Rule({<<"iphone", "15", "pro">>, <<"iphone", "16", "pro">>}, "iphone_6_1_pro"),
       Rule({<<"iphone", "15", "plus">>, <<"iphone", "16", "plus">>}, "iphone_6_7"),
       Rule({<<"iphone", "15">>, <<"iphone", "16">>}, "iphone_6_1"),
       Rule({<<"iphone", "14", "pro", "max">>}, "iphone_6_7"),
       Rule({<<"iphone", "14", "pro">>}, "iphone_6_1_pro"),
       Rule({<<"iphone", "14", "plus">>}, "iphone_6_7"),
       Rule({<<"iphone", "14">>}, "iphone_6_1"),
       Rule({<<"iphone", "se">>}, "iphone_5_5"),
       Rule({<<"ipad", "pro", "12.9">>, <<"ipad", "pro", "(12.9">>}, "ipad_12_9"),
       Rule({<<"ipad", "pro", "11">>, <<"ipad", "pro", "(11">>}, "ipad_11"),
       Rule({<<"ipad", "air">>}, "ipad_10_9"),
       Rule({<<"ipad", "mini">>}, "ipad_8_3"),
       Rule({<<"ipad">>}, "ipad_10_9") >>

Matching(name) ==
    {i \in 1..Len(Rules) : \E words \in Rules[i].phrases : includes(toLowerCase(name), words)}

C34_FirstMatchWins ==
    ret.op = "mapSimulatorToDeviceId" =>
        LET name == ret.body.name
            matching == Matching(name)
        IN  /\ matching # {}
                => \E i \in matching :
                     /\ \A j \in matching : i <= j
                     /\ ret.body.deviceId = Rules[i].deviceId
            /\ includes(toLowerCase(name), <<"iphone", "15", "pro", "max">>)
                => /\ {1, 2, 4} \subseteq matching
                   /\ ret.body.deviceId = "iphone_6_7"
            /\ (includes(toLowerCase(name), <<"ipad">>) /\ matching \cap (1..13) = {})
                => ret.body.deviceId = "ipad_10_9"

\* "iPhone 15 Pro Max": the rules of the Pro Max, of the Pro and of the
\* generation match; the first one gave iphone_6_7.
C34_Witness ==
    /\ ret.op = "mapSimulatorToDeviceId"
    /\ ret.body.name = <<"iPhone", "15", "Pro", "Max">>
    /\ Matching(ret.body.name) = {1, 2, 4}
    /\ ret.body.deviceId = "iphone_6_7"


-----------------------------------------------------------------------------
(* C35: getBootedSimulators returns the devices of the listing that are     *)
(* Booted and whose runtime is of the iOS family, each of them once and no  *)
(* other device: a booted device of a watchOS, tvOS, xrOS or visionOS       *)
(* runtime is not returned, nor is a device that is not Booted.             *)
MobileBooted(entries) ==
    {d.udid : d \in UNION {{e.devices[i] : i \in 1..Len(e.devices)} :
                            e \in {x \in Range(entries) : x.runtime.family = "iOS"}}}
    \ {d.udid : d \in {x \in UNION {{e.devices[i] : i \in 1..Len(e.devices)} :
                                       e \in Range(entries)} : x.state # "Booted"}}

C35_MobileBootedOnly ==
    ret.op = "getBootedSimulators" =>
        LET got == ret.body.bootedSimulators
        IN  /\ {got[i].udid : i \in 1..Len(got)} = MobileBooted(ret.body.entries)
            /\ Len(got) = Cardinality(MobileBooted(ret.body.entries))

\* A booted headset of the visionOS runtime is listed before the iOS runtime,
\* whose phone is shut down and whose tablet is booted: the tablet alone is
\* returned.
C35_Witness ==
    /\ ret.op = "getBootedSimulators"
    /\ Len(ret.body.entries) = 2
    /\ ret.body.entries[1].runtime.family = "visionOS"
    /\ ret.body.entries[1].devices[1].state = "Booted"
    /\ Len(ret.body.entries[2].devices) = 2
    /\ Len(ret.body.bootedSimulators) = 1
    /\ ret.body.bootedSimulators[1].udid = "UDID-iOS-2"


-----------------------------------------------------------------------------
(* C36: in create_app_previews the preview made for the definition at       *)
(* 0-based position i that names no palette gets palettes[i mod 5] of       *)
(* ocean, sunset, forest, lavender, coral, and the one that names a palette *)
(* gets that palette.  i is the position of the definition in the list      *)
(* given, whatever the number of captures that left a file before it; so it *)
(* is of the previews a call has pushed so far, at each of its awaits.      *)
PositionOf(title) == CHOOSE i \in 1..(Len(palettes) + 1) : title = "T" \o ToString(i)

PaletteByPosition(preview) ==
    IF PositionOf(preview.title) = 3 THEN "coral"
    ELSE palettes[((PositionOf(preview.title) - 1) % 5) + 1]

C36_PaletteByPosition ==
    /\ Succeeded(ret, "create_app_previews")
        => \A k \in 1..Len(PreviewsOf(storeFile)) :
              PreviewsOf(storeFile)[k].paletteId = PaletteByPosition(PreviewsOf(storeFile)[k])
    /\ \A k \in 1..Len(running) :
          running[k].op = "create_app_previews"
              => \A j \in 1..Len(running[k].store.previews) :
                    /\ PositionOf(running[k].store.previews[j].title) <= running[k].i
                    /\ running[k].store.previews[j].paletteId
                         = PaletteByPosition(running[k].store.previews[j])
    /\ (Idle /\ ret.op = "none" /\ ~loadStoreThrows(storeFile))
        => \A a \in PositionArgs(Len(palettes) + 1), skipped \in SUBSET (1..(Len(palettes) + 1)) :
              \E e \in {CreateAppPreviewsEffect(a,
                            [left |-> {}, open |-> "ok",
                             runs |-> [i \in 1..Len(a.previews) |->
                                        [window |-> "id",
                                         byId |-> IF i \in skipped THEN "nofile" ELSE "file",
                                         activate |-> "skipped", front |-> "skipped"]],
                             list |-> BootedListing, installed |-> {},
                             terminate |-> "ok", launch |-> "ok",
                             shotsOut |-> [i \in 1..Len(a.previews) |->
                                            IF i \in skipped THEN "nofile" ELSE "file"],
                             activate |-> "ok", reveal |-> "ok"],
                            lastLaunchedSimulator)} :
                 /\ Succeeded(e.ret, "create_app_previews")
                 /\ Len(PreviewsOf(e.storeFile)) = Len(a.previews) - Cardinality(skipped)
                 /\ \A k \in 1..Len(PreviewsOf(e.storeFile)) :
                       /\ PositionOf(PreviewsOf(e.storeFile)[k].title) \notin skipped
                       /\ PreviewsOf(e.storeFile)[k].paletteId
                            = PaletteByPosition(PreviewsOf(e.storeFile)[k])
                 /\ 6 \notin skipped
                    => PreviewsOf(e.storeFile)[Len(PreviewsOf(e.storeFile))].paletteId = "ocean"

\* The first screenshot left no file and the second did: the one preview
\* persisted is the one of the second definition, with the second palette.
C36_Witness ==
    /\ Succeeded(ret, "create_app_previews")
    /\ ret.body.platform = "ios"
    /\ Len(PreviewsOf(storeFile)) = 1
    /\ PreviewsOf(storeFile)[1].title = "T2"
    /\ PreviewsOf(storeFile)[1].paletteId = "sunset"
    /\ Len(SelectSeq(ret.cmds, LAMBDA c : c = "screenshot")) = 2


-----------------------------------------------------------------------------
(* C37: create_app_previews resets before anything else.  The step that     *)
(* takes a call which gets past the deletion of the screenshots and the     *)
(* reading of the store leaves no screenshot and no persisted preview, with *)
(* the settings kept, before the call runs any command; from there the     *)
(* call adds the file of the capture under way and removes none, the store  *)
(* file holds no preview until the call saves the ones it captured, and the *)
(* step that answers writes nothing.  A call without previews returns the   *)
(* request for the marketing copy with the screenshots directory and the    *)
(* persisted previews empty and the settings kept, having run no command;   *)
(* the arguments hold no confirmation.                                      *)
AsksForInput(r) ==
    /\ r.op = "create_app_previews"
    /\ r.outcome = "returned"
    /\ "needsInput" \in DOMAIN r.body

PastReset(r) ==
    /\ r.op = "create_app_previews"
    /\ r.outcome = "returned"
    /\ AsksForInput(r) \/ r.cmds # <<>>

\* The handler run alone on a call without previews.
AsksAfterReset ==
    \A a \in {b \in CreateArgs : Len(b.previews) = 0} :
        \E e \in {CreateAppPreviewsEffect(a,
                      [left |-> {}, open |-> "ok", runs |-> <<>>, list |-> NothingBooted,
                       installed |-> {}, terminate |-> "ok", launch |-> "ok",
                       shotsOut |-> <<>>, activate |-> "ok", reveal |-> "ok"],
                      lastLaunchedSimulator)} :
           /\ AsksForInput(e.ret)
           /\ e.ret.cmds = <<>>
           /\ e.shots = {}
           /\ PreviewsOf(e.storeFile) = <<>>
           /\ e.pendingFile = pendingFile

C37_ResetFirst ==
    /\ \A a \in CreateArgs : "confirm" \notin DOMAIN a
    /\ []((Idle /\ ~loadStoreThrows(storeFile)) => AsksAfterReset)
    /\ [](\A k \in 1..Len(running) :
             running[k].op = "create_app_previews"
                 => /\ running[k].store.previews = running[k].capturedPreviews
                    /\ PreviewsOf(storeFile)
                         = IF running[k].at \in {"open -b", "open dataDir"}
                           THEN running[k].capturedPreviews ELSE <<>>)
    /\ [][ /\ (/\ calls' = calls + 1
                /\ \/ Len(running') = Len(running) /\ AsksForInput(ret')
                   \/ /\ Len(running') > Len(running)
                      /\ running'[Len(running')].op = "create_app_previews")
               => /\ shots' = {}
                  /\ storeFile'.kind = "json"
                  /\ storeFile'.doc.settings = Stringify(loadStore(storeFile)).settings
                  /\ PreviewsOf(storeFile') = <<>>
                  /\ pendingFile' = pendingFile
                  /\ Len(running') = Len(running)
                       => /\ ret'.body.success = FALSE
                          /\ ret'.cmds = <<>>
           /\ \A k \in 1..Len(running) :
                  (/\ running[k].op = "create_app_previews"
                   /\ Len(running') = Len(running)
                   /\ running'[k] # running[k])
                      => /\ shots \subseteq shots'
                         /\ shots' \ shots \subseteq {running'[k].screenshotPath}
                         /\ running'[k].screenshotPath # running[k].screenshotPath
                              => running'[k].screenshotPath \notin shots
           /\ (Answers /\ ret'.op = "create_app_previews")
               => /\ Len(running') < Len(running)
                       => /\ PastReset(ret')
                          /\ shots' = shots
                          /\ storeFile' = storeFile
                          /\ pendingFile' = pendingFile
                  /\ ~PastReset(ret')
                       => /\ storeFile' = storeFile
                          /\ pendingFile' = pendingFile
                          /\ ret'.body.success = FALSE
       ]_vars

\* A first call captured two screens and handed them over; a second call
\* without previews asked for the marketing copy, and the two screenshots and
\* the two persisted previews are gone.
C37_Witness ==
    /\ AsksForInput(ret)
    /\ ret.after = "create_app_previews"
    /\ pendingFile.kind = "json"
    /\ Len(pendingFile.doc.previews) = 2
    /\ shots = {}
    /\ storeFile.kind = "json"
    /\ PreviewsOf(storeFile) = <<>>


-----------------------------------------------------------------------------
(* C38: when every command and every wait comes to its end, every           *)
(* capture_app_screens that was started returns: whenever invocations are   *)
(* suspended there comes a state where none is.  A step that leaves an      *)
(* invocation suspended has moved it on: to its next command, from a        *)
(* screenshot command to the look at its file, from there to the wait       *)
(* before the next screen, which is one of the list, and from that wait to  *)
(* the screenshot command of that screen, so that no screen is taken twice; *)
(* an invocation is removed only with a result returned, with success only  *)
(* after one screenshot command for each of its screens.                    *)
MovedOn(r, q) ==
    /\ q.args = r.args
    /\ \/ r.at = "list" /\ q.at = "terminate" /\ q.i = r.i
       \/ r.at = "terminate" /\ q.at = "launch" /\ q.i = r.i
       \/ r.at = "launch" /\ q.at = "screenshot" /\ q.i = 1
       \/ r.at = "screenshot" /\ q.at = "screenshot_done" /\ q.i = r.i
       \/ r.at = "screenshot_done" /\ q.at = "sleep" /\ q.i = r.i + 1
       \/ r.at = "sleep" /\ q.at = "screenshot" /\ q.i = r.i
    /\ q.at \in {"sleep", "screenshot", "screenshot_done"}
         => q.i \in 1..Len(q.args.screens)

C38_RunsToCompletion ==
    /\ (running # <<>>) ~> (running = <<>>)
    /\ [][ /\ (Len(running') = Len(running) /\ running' # running)
                => \E k \in 1..Len(running) :
                     /\ MovedOn(running[k], running'[k])
                     /\ \A j \in 1..Len(running) : j # k => running'[j] = running[j]
           /\ Len(running') > Len(running)
                => /\ running' = Append(running, running'[Len(running')])
                   /\ running'[Len(running')].at = "list"
                   /\ ret' = ret
           /\ Len(running') < Len(running)
                => \E k \in 1..Len(running) :
                     /\ running' = Others(k)
                     /\ ret'.op = "capture_app_screens"
                     /\ ret'.outcome = "returned"
                     /\ ret'.body.success
                          => /\ running[k].at = "screenshot_done"
                             /\ running[k].i = Len(running[k].args.screens)
                             /\ Len(SelectSeq(ret'.cmds, LAMBDA c : c = "screenshot"))
                                  = Len(running[k].args.screens)
      ]_vars

\* Two invocations were suspended together and both have returned, the last
\* one with success after a screenshot for each of its screens.
C38_Witness ==
    /\ running = <<>>
    /\ calls = 2
    /\ now >= 2
    /\ Succeeded(ret, "capture_app_screens")
    /\ ret.after = "capture_app_screens"
    /\ Len(ret.body.previews) = 1
    /\ Len(PreviewsOf(storeFile)) = 1


-----------------------------------------------------------------------------
(* C39: a call that returns success false leaves the persisted previews as  *)
(* they were before the call, whichever command or file operation failed,   *)
(* create_app_previews failing after its reset included: the step in which *)
(* the answer is given changes none of them, and create_app_previews taken *)
(* when no other call is under way and answering success false leaves them *)
(* as the call found them, under every outcome of what it runs.            *)
C39_AllOrNothing ==
    /\ [](Idle => \A a \in CreateArgs : \A env \in CreateOutcomes(a) :
                     \E e \in {CreateAppPreviewsEffect(a, env, lastLaunchedSimulator)} :
                        e.ret.body.success = FALSE
                            => PreviewsOf(e.storeFile) = PreviewsOf(storeFile))
    /\ [][ (/\ Answers
            /\ ret'.outcome = "returned"
            /\ "success" \in DOMAIN ret'.body
            /\ ret'.body.success = FALSE)
           => PreviewsOf(storeFile') = PreviewsOf(storeFile)
         ]_vars

-----------------------------------------------------------------------------
(* C40: every persisted preview whose screenshotPath is in the screenshots  *)
(* directory names a file that is there, after any sequence of calls, the   *)
(* calls of reset_all that fail part-way included.                          *)
C40_ScreenshotsExist ==
    \A k \in 1..Len(PreviewsOf(storeFile)) :
        PreviewsOf(storeFile)[k].screenshotPath \notin UserFiles
            => PreviewsOf(storeFile)[k].screenshotPath \in shots

=============================================================================
